---- MODULE Spec2Model ----
(***************************************************************************)
(* Template-resolution engine of Document-Bot (src/finalHC.py).            *)
(*                                                                         *)
(* Text is a TLA+ string; a character is a string of length 1.  Offsets    *)
(* and fragment indices are 0-based as in the Python source; Ch and Frag   *)
(* translate them to the 1-based sequences of TLA+.                        *)
(*                                                                         *)
(* A Replacement Map is a sequence of records [k, v] in the insertion      *)
(* order of the Python dict.                                               *)
(***************************************************************************)
EXTENDS Integers, Sequences, FiniteSets, TLC

VARIABLES
    texts,      \* resolver harness: the fragments (w:t texts) of one container
    orig,       \* resolver harness: the fragments before the first pass
    rmap,       \* resolver harness: the Replacement Map in use
    pass,       \* resolver harness: number of resolver passes run so far
    res1,       \* resolver harness: what the first pass returned
    res2,       \* resolver harness: what the second pass returned
    scan,       \* _cross_run_replace_xml: the cursor of its scan loop
    ret,        \* call harness: <<value>> once the function called has returned
    inp,        \* process_docx: its arguments [name, repl, logo, width_mm, dry]
    doc0,       \* process_docx: the document as Document(input_path) loaded it
    body,       \* process_docx: the w:p elements of the document body, in order
    hf,         \* process_docx: the w:p elements of the header and footer parts
    tables,     \* process_docx: the tables of the body (doc.tables)
    report,     \* process_docx: the report being filled in
    pc,         \* process_docx: the stage about to run
    pr,         \* prune_or_rescue_body_shapes: its local variables
    saved       \* process_docx: the output file has been written

harnessVars == <<texts, orig, rmap, pass, res1, res2, scan, ret>>
docVars == <<inp, doc0, body, hf, tables, report, pc, pr, saved>>
vars == <<texts, orig, rmap, pass, res1, res2, scan, ret,
          inp, doc0, body, hf, tables, report, pc, pr, saved>>

----------------------------------------------------------------------------
(* Characters and strings                                                  *)

PLACEHOLDER_LOGO == "<logo>"

LowerOf ==
    ("A" :> "a") @@ ("B" :> "b") @@ ("C" :> "c") @@ ("D" :> "d") @@
    ("E" :> "e") @@ ("F" :> "f") @@ ("G" :> "g") @@ ("H" :> "h") @@
    ("I" :> "i") @@ ("J" :> "j") @@ ("K" :> "k") @@ ("L" :> "l") @@
    ("M" :> "m") @@ ("N" :> "n") @@ ("O" :> "o") @@ ("P" :> "p") @@
    ("Q" :> "q") @@ ("R" :> "r") @@ ("S" :> "s") @@ ("T" :> "t") @@
    ("U" :> "u") @@ ("V" :> "v") @@ ("W" :> "w") @@ ("X" :> "x") @@
    ("Y" :> "y") @@ ("Z" :> "z")

WordChars ==
    DOMAIN LowerOf \cup {LowerOf[c] : c \in DOMAIN LowerOf}
    \cup {"0", "1", "2", "3", "4", "5", "6", "7", "8", "9", "_"}

SpaceChars == {" ", "\t", "\n", "\r", "\f"}

\* s[i] of Python, i 0-based, 0 <= i < len(s)
Ch(s, i) == SubSeq(s, i + 1, i + 1)

\* s[i:j] of Python for 0 <= i, j; clipped to the string like a Python slice
Slice(s, i, j) ==
    LET jj == IF j > Len(s) THEN Len(s) ELSE j
    IN  IF i >= jj THEN "" ELSE SubSeq(s, i + 1, jj)

\* s[i:] of Python
From(s, i) == Slice(s, i, Len(s))

LowerCh(c) == IF c \in DOMAIN LowerOf THEN LowerOf[c] ELSE c

RECURSIVE Lower(_)
Lower(s) == IF s = "" THEN "" ELSE LowerCh(Ch(s, 0)) \o Lower(From(s, 1))

\* c in s, for a character c
HasCh(s, c) == \E i \in 0 .. Len(s) - 1 : Ch(s, i) = c

\* s.startswith(p) / s.endswith(p)
StartsWith(s, p) == Len(s) >= Len(p) /\ Slice(s, 0, Len(p)) = p
EndsWith(s, p) == Len(s) >= Len(p) /\ From(s, Len(s) - Len(p)) = p

\* p in s (substring test)
Contains(s, p) == \E i \in 0 .. Len(s) - Len(p) : Slice(s, i, i + Len(p)) = p

\* the pattern re.escape(p) matches s at offset i under re.IGNORECASE
MatchCIAt(s, i, p) ==
    i + Len(p) <= Len(s) /\ Lower(Slice(s, i, i + Len(p))) = Lower(p)

\* re.search(re.escape(p), s, flags=re.IGNORECASE)
ContainsCI(s, p) == \E i \in 0 .. Len(s) - Len(p) : MatchCIAt(s, i, p)

\* str.replace(k, v), k non-empty (case-sensitive)
RECURSIVE StrReplace(_, _, _)
StrReplace(s, k, v) ==
    IF s = "" THEN ""
    ELSE IF StartsWith(s, k) THEN v \o StrReplace(From(s, Len(k)), k, v)
    ELSE Ch(s, 0) \o StrReplace(From(s, 1), k, v)

\* s.strip()
RECURSIVE LStrip(_)
LStrip(s) ==
    IF s # "" /\ Ch(s, 0) \in SpaceChars THEN LStrip(From(s, 1)) ELSE s

RECURSIVE RStrip(_)
RStrip(s) ==
    IF s # "" /\ Ch(s, Len(s) - 1) \in SpaceChars
    THEN RStrip(Slice(s, 0, Len(s) - 1)) ELSE s

Strip(s) == LStrip(RStrip(s))

\* "".join(seq)
RECURSIVE Join(_)
Join(seq) == IF seq = <<>> THEN "" ELSE Head(seq) \o Join(Tail(seq))

----------------------------------------------------------------------------
(* re.sub with a replacement template                                      *)

\* the printable ASCII characters a string of the model can hold: code
\* points 32 .. 95 and 97 .. 126 in order
Printable ==
    " !\"#$%&'()*+,-./0123456789:;<=>?@ABCDEFGHIJKLMNOPQRSTUVWXYZ[\\]^_"
    \o "abcdefghijklmnopqrstuvwxyz{|}~"

\* chr(c), for the code points a string of the model can hold
Chr(c) ==
    CASE c = 9 -> "\t"
      [] c = 10 -> "\n"
      [] c = 12 -> "\f"
      [] c = 13 -> "\r"
      [] c \in 32 .. 95 -> Ch(Printable, c - 32)
      [] c \in 97 .. 126 -> Ch(Printable, c - 33)

DIGITS == {"0", "1", "2", "3", "4", "5", "6", "7", "8", "9"}
OCTDIGITS == {"0", "1", "2", "3", "4", "5", "6", "7"}
ASCIILETTERS == DOMAIN LowerOf \cup {LowerOf[c] : c \in DOMAIN LowerOf}

\* int(c) for a digit c
DigitVal(c) == CHOOSE n \in 0 .. 9 : Ch("0123456789", n) = c

\* sre_parse.ESCAPES, as far as a replacement template uses it
ESCAPES ==
    ("a" :> 7) @@ ("b" :> 8) @@ ("f" :> 12) @@ ("n" :> 10) @@
    ("r" :> 13) @@ ("t" :> 9) @@ ("v" :> 11) @@ ("\\" :> 92)

\* offset of the first > of s at or after offset i, or -1
RECURSIVE FindGt(_, _)
FindGt(s, i) ==
    IF i >= Len(s) THEN -1
    ELSE IF Ch(s, i) = ">" THEN i ELSE FindGt(s, i + 1)

\* the name of \g<name> refers to group 0: int(name) is 0.  int() takes
\* surrounding whitespace, a sign, and single underscores between digits
IsGroupZero(name) ==
    LET Unsigned(t) ==
            IF t # "" /\ Ch(t, 0) \in {"+", "-"} THEN From(t, 1) ELSE t
        Zero(d) ==
            /\ d # ""
            /\ \A i \in 0 .. Len(d) - 1 : Ch(d, i) \in {"0", "_"}
            /\ Ch(d, 0) = "0"
            /\ Ch(d, Len(d) - 1) = "0"
            /\ ~Contains(d, "__")
    IN  Zero(Unsigned(Strip(name)))

\* a template that does not compile
BadTemplate == [raised |-> TRUE, parts |-> <<>>]

\* the template with the literal lit put in front of it
LiteralThen(lit, rest) ==
    IF rest.raised THEN rest
    ELSE [raised |-> FALSE,
          parts |-> <<[group |-> FALSE, literal |-> lit]>> \o rest.parts]

\* the template with a reference to group 0 put in front of it
GroupThen(rest) ==
    IF rest.raised THEN rest
    ELSE [raised |-> FALSE,
          parts |-> <<[group |-> TRUE, literal |-> ""]>> \o rest.parts]

\* sre_parse.parse_template(v, pattern) from offset i of v on, for a pattern
\* without groups: the literals and the references to the whole match, in
\* order, or raised when re.error (or IndexError) is raised.  A backslash
\* opens an escape; every group but group 0 is an invalid reference.
RECURSIVE ParseTemplate(_, _)
ParseTemplate(v, i) ==
    IF i >= Len(v) THEN [raised |-> FALSE, parts |-> <<>>]
    ELSE IF Ch(v, i) # "\\" THEN LiteralThen(Ch(v, i), ParseTemplate(v, i + 1))
    ELSE IF i + 1 >= Len(v) THEN BadTemplate
    ELSE LET c == Ch(v, i + 1)
             oct(j) == j < Len(v) /\ Ch(v, j) \in OCTDIGITS
         IN  IF c = "g"
             THEN LET e == FindGt(v, i + 3)
                  IN  IF /\ i + 2 < Len(v)
                         /\ Ch(v, i + 2) = "<"
                         /\ e > i + 3
                         /\ IsGroupZero(Slice(v, i + 3, e))
                      THEN GroupThen(ParseTemplate(v, e + 1))
                      ELSE BadTemplate
             ELSE IF c = "0"
             THEN IF oct(i + 2) /\ oct(i + 3)
                  THEN LiteralThen(
                           Chr((8 * DigitVal(Ch(v, i + 2))
                                + DigitVal(Ch(v, i + 3))) % 256),
                           ParseTemplate(v, i + 4))
                  ELSE IF oct(i + 2)
                  THEN LiteralThen(Chr(DigitVal(Ch(v, i + 2))),
                                   ParseTemplate(v, i + 3))
                  ELSE LiteralThen(Chr(0), ParseTemplate(v, i + 2))
             ELSE IF c \in DIGITS
             THEN IF c \in OCTDIGITS /\ oct(i + 2) /\ oct(i + 3)
                  THEN LET code == 64 * DigitVal(c)
                                   + 8 * DigitVal(Ch(v, i + 2))
                                   + DigitVal(Ch(v, i + 3))
                       IN  IF code > 255 THEN BadTemplate
                           ELSE LiteralThen(Chr(code), ParseTemplate(v, i + 4))
                  ELSE BadTemplate
             ELSE IF c \in DOMAIN ESCAPES
             THEN LiteralThen(Chr(ESCAPES[c]), ParseTemplate(v, i + 2))
             ELSE IF c \in ASCIILETTERS THEN BadTemplate
             ELSE LiteralThen("\\" \o c, ParseTemplate(v, i + 2))

\* match.expand(template): a reference to group 0 gives the matched text
RECURSIVE Expand(_, _)
Expand(parts, matched) ==
    IF parts = <<>> THEN ""
    ELSE (IF Head(parts).group THEN matched ELSE Head(parts).literal)
         \o Expand(Tail(parts), matched)

\* the matches of re.escape(k), in any letter case, replaced from left to
\* right by the expanded template; k non-empty
RECURSIVE SubCI(_, _, _)
SubCI(k, parts, s) ==
    IF s = "" THEN ""
    ELSE IF MatchCIAt(s, 0, k)
         THEN Expand(parts, Slice(s, 0, Len(k))) \o SubCI(k, parts, From(s, Len(k)))
         ELSE Ch(s, 0) \o SubCI(k, parts, From(s, 1))

\* re.sub(re.escape(k), v, s, flags=re.IGNORECASE), k non-empty.  v is a
\* template, compiled before the search: when it does not compile the call
\* raises, whether or not k occurs in s
ReSubCI(k, v, s) ==
    LET Sub(t) == IF t.raised THEN [raised |-> TRUE, text |-> s]
                  ELSE [raised |-> FALSE, text |-> SubCI(k, t.parts, s)]
    IN  Sub(ParseTemplate(v, 0))

----------------------------------------------------------------------------
(* The Replacement Map                                                     *)

Keys(repl) == [i \in 1 .. Len(repl) |-> repl[i].k]

HasKey(repl, key) == \E i \in 1 .. Len(repl) : repl[i].k = key

\* repl.get(key, default)
Get(repl, key, default) ==
    IF HasKey(repl, key)
    THEN repl[CHOOSE i \in 1 .. Len(repl) : repl[i].k = key].v
    ELSE default

\* repl.get(tok, repl.get(tok.lower(), default))
Get2(repl, tok, default) == Get(repl, tok, Get(repl, Lower(tok), default))

\* norm[key] = value: a key the dict holds keeps its place and takes the
\* new value, a new key goes to the end
Put(repl, key, value) ==
    IF HasKey(repl, key)
    THEN [i \in 1 .. Len(repl) |->
            IF repl[i].k = key THEN [k |-> key, v |-> value] ELSE repl[i]]
    ELSE Append(repl, [k |-> key, v |-> value])

\* str(n) for an integer n
RECURSIVE NatStr(_)
NatStr(n) ==
    IF n < 10 THEN Ch("0123456789", n)
    ELSE NatStr(n \div 10) \o Ch("0123456789", n % 10)

IntStr(n) == IF n < 0 THEN "-" \o NatStr(0 - n) ELSE NatStr(n)

\* A JSON value is a record [t, s, n, b]: t is "str", "null", "bool" or
\* "int", and s, n or b holds what it is.
JsonStr(s) == [t |-> "str", s |-> s, n |-> 0, b |-> FALSE]
JsonNull == [t |-> "null", s |-> "", n |-> 0, b |-> FALSE]
JsonBool(b) == [t |-> "bool", s |-> "", n |-> 0, b |-> b]
JsonInt(n) == [t |-> "int", s |-> "", n |-> n, b |-> FALSE]

\* line 545: "" if v is None else str(v)
ValueStr(v) ==
    CASE v.t = "str" -> v.s
      [] v.t = "null" -> ""
      [] v.t = "bool" -> (IF v.b THEN "True" ELSE "False")
      [] v.t = "int" -> IntStr(v.n)

\* lines 542-546 from entry i of data on: every key is stored as given and
\* lower-cased, each store overwriting what the dict holds under that key
RECURSIVE LoadFrom(_, _, _)
LoadFrom(data, i, norm) ==
    IF i > Len(data) THEN norm
    ELSE LET k == data[i].k
             v == ValueStr(data[i].v)
         IN  LoadFrom(data, i + 1, Put(Put(norm, k, v), Lower(k), v))

\* load_replacements: data is the parsed JSON object, a sequence of [k, v]
\* in the order of the file, its keys distinct
LoadReplacements(data) == LoadFrom(data, 1, <<>>)

\* length of the run of characters other than < and > of s from offset i on
RECURSIVE NameRun(_, _)
NameRun(s, i) ==
    IF i < Len(s) /\ Ch(s, i) \notin {"<", ">"} THEN 1 + NameRun(s, i + 1) ELSE 0

\* discover_placeholders: the set re.findall(r"<[^<>]+>", text), from offset i
RECURSIVE FindAllTokens(_, _)
FindAllTokens(text, i) ==
    IF i >= Len(text) THEN {}
    ELSE IF Ch(text, i) # "<" THEN FindAllTokens(text, i + 1)
    ELSE LET n == NameRun(text, i + 1)
             e == i + 1 + n
         IN  IF n > 0 /\ e < Len(text) /\ Ch(text, e) = ">"
             THEN {Slice(text, i, e + 1)} \cup FindAllTokens(text, e + 1)
             ELSE FindAllTokens(text, i + 1)

DiscoverPlaceholders(text) == FindAllTokens(text, 0)

\* the filter of lines 612 and 958: every discovered token but the logo token
Unresolved(text) ==
    { t \in DiscoverPlaceholders(text) : Lower(Strip(t)) # PLACEHOLDER_LOGO }


----------------------------------------------------------------------------
(* handle_smart_possessive                                                 *)

\* number of whitespace characters of s from offset i on (greedy \s*)
RECURSIVE SpaceRun(_, _)
SpaceRun(s, i) ==
    IF i < Len(s) /\ Ch(s, i) \in SpaceChars THEN 1 + SpaceRun(s, i + 1) ELSE 0

\* End offset of the match of r'<company\s+name>\s*\'s\b' (re.IGNORECASE)
\* that starts at offset i of s, or -1 when the pattern does not match there.
PossessiveEnd(s, i) ==
    IF ~MatchCIAt(s, i, "<company") THEN -1
    ELSE LET w1 == SpaceRun(s, i + 8)
             n  == i + 8 + w1
         IN  IF w1 = 0 \/ ~MatchCIAt(s, n, "name>") THEN -1
             ELSE LET q == n + 5 + SpaceRun(s, n + 5)
                  IN  IF /\ MatchCIAt(s, q, "'s")
                         /\ (q + 2 = Len(s) \/ Ch(s, q + 2) \notin WordChars)
                      THEN q + 2
                      ELSE -1

\* re.search(possessive_pattern, text, re.IGNORECASE)
PossessiveSearch(s) == \E i \in 0 .. Len(s) - 1 : PossessiveEnd(s, i) >= 0

\* the matches of possessive_pattern in s from offset i on, replaced from
\* left to right by the expanded template
RECURSIVE PossessiveSubFrom(_, _, _)
PossessiveSubFrom(s, parts, i) ==
    IF i >= Len(s) THEN ""
    ELSE LET From2(e) ==
                 IF e >= 0
                 THEN Expand(parts, Slice(s, i, e))
                          \o PossessiveSubFrom(s, parts, e)
                 ELSE Ch(s, i) \o PossessiveSubFrom(s, parts, i + 1)
         IN  From2(PossessiveEnd(s, i))

\* re.sub(possessive_pattern, v, s, flags=re.IGNORECASE): v is a template,
\* compiled before the search
PossessiveSub(s, v) ==
    LET Sub(t) == IF t.raised THEN [raised |-> TRUE, text |-> s]
                  ELSE [raised |-> FALSE,
                        text |-> PossessiveSubFrom(s, t.parts, 0)]
    IN  Sub(ParseTemplate(v, 0))

\* handle_smart_possessive: the returned (text, changed), or raised when
\* the re.sub of line 631 or 637 raises
HandleSmartPossessive(text, repl) ==
    IF PossessiveSearch(text)
    THEN LET Returns(sub) ==
                 [text |-> sub.text, changed |-> ~sub.raised,
                  raised |-> sub.raised]
             With(company_name) ==
                 IF company_name = ""
                 THEN [text |-> text, changed |-> FALSE, raised |-> FALSE]
                 ELSE Returns(PossessiveSub(text,
                          company_name \o (IF EndsWith(Strip(company_name), "s")
                                           THEN "'" ELSE "'s")))
         IN  With(Get(repl, "<company name>", ""))
    ELSE [text |-> text, changed |-> FALSE, raised |-> FALSE]

----------------------------------------------------------------------------
(* replace_in_run_text: the per-run resolver of the body pass              *)

\* lines 592-600: the generic substitutions from entry i of the map on, in
\* the order of the map; changed is raised by every substitution that
\* alters the text it is given (line 598)
RECURSIVE GenericSubs(_, _, _, _)
GenericSubs(text, changed, repl, i) ==
    IF i > Len(repl)
    THEN [text |-> text, changed |-> changed, raised |-> FALSE]
    ELSE LET k == repl[i].k
             After(new) ==
                 IF new.raised
                 THEN [text |-> text, changed |-> changed, raised |-> TRUE]
                 ELSE GenericSubs(new.text, changed \/ new.text # text,
                                  repl, i + 1)
         IN  IF ~(StartsWith(k, "<") /\ EndsWith(k, ">")) \/ Lower(k) = PLACEHOLDER_LOGO
             THEN GenericSubs(text, changed, repl, i + 1)
             ELSE After(ReSubCI(k, repl[i].v, text))

\* what replace_in_run_text leaves of a call that raised
RunRaised(run_text) ==
    [text |-> run_text, changed |-> FALSE, logo |-> FALSE, unresolved |-> {},
     raised |-> TRUE]

\* replace_in_run_text: the returned (text, changed, logo_here, unresolved),
\* or raised when one of its re.sub calls raises
ReplaceInRunText(run_text, repl) ==
    IF run_text = ""
    THEN [text |-> run_text, changed |-> FALSE, logo |-> FALSE,
          unresolved |-> {}, raised |-> FALSE]
    ELSE LET Returns(t3, changed, here) ==
                 [text |-> t3, changed |-> changed \/ here, logo |-> here,
                  unresolved |-> Unresolved(t3), raised |-> FALSE]
             Logo(text, changed, here) ==
                 Returns(IF here THEN ReSubCI(PLACEHOLDER_LOGO, "", text).text
                         ELSE text,
                         changed, here)
             Possessive(g, p) ==
                 IF p.raised THEN RunRaised(run_text)
                 ELSE Logo(p.text, g.changed \/ p.changed,
                           ContainsCI(p.text, PLACEHOLDER_LOGO))
             Generic(g) ==
                 IF g.raised THEN RunRaised(run_text)
                 ELSE Possessive(g, HandleSmartPossessive(g.text, repl))
         IN  Generic(GenericSubs(run_text, FALSE, repl, 1))
----------------------------------------------------------------------------
(* _cross_run_replace_xml: the cross-fragment resolver                     *)

\* texts[i] of Python, i 0-based
Frag(txs, i) == txs[i + 1]

\* line 872-873: the keys shaped <...>, longest first, ties in map order
RECURSIVE ByLength(_, _)
ByLength(keys, n) ==
    IF n < 2 THEN <<>>
    ELSE SelectSeq(keys, LAMBDA k : Len(k) = n) \o ByLength(keys, n - 1)

MaxKeyLen(keys) ==
    IF keys = <<>> THEN 0
    ELSE CHOOSE n \in {Len(keys[i]) : i \in 1 .. Len(keys)} :
            \A i \in 1 .. Len(keys) : Len(keys[i]) <= n

Tokens(repl) ==
    LET shaped == SelectSeq(Keys(repl),
                            LAMBDA k : StartsWith(k, "<") /\ EndsWith(k, ">"))
    IN  ByLength(shaped, MaxKeyLen(shaped))

\* lines 881-885: how many characters the inner while of find consumes
RECURSIVE MatchRun(_, _, _, _)
MatchRun(nt, off, token_lower, j) ==
    IF off < Len(nt) /\ j < Len(token_lower)
       /\ LowerCh(Ch(nt, off)) = Ch(token_lower, j)
    THEN 1 + MatchRun(nt, off + 1, token_lower, j + 1)
    ELSE 0

\* lines 875-899: find(token_lower, sn, so) with its loop variables i, j, off;
\* the result is <<sn, so, en, eo>>, or <<>> for None
RECURSIVE FindLoop(_, _, _, _, _, _, _)
FindLoop(txs, token_lower, sn, so, i, j, off) ==
    IF i >= Len(txs) THEN <<>>
    ELSE LET nt   == Frag(txs, i)
             adv  == MatchRun(nt, off, token_lower, j)
             off2 == off + adv
             j2   == j + adv
         IN  IF j2 = Len(token_lower) THEN <<sn, so, i, off2>>
             ELSE IF off2 < Len(nt) /\ LowerCh(Ch(nt, off2)) # Ch(token_lower, j2)
             THEN LET wrap == so + 1 >= Len(Frag(txs, sn))
                      sn2  == IF wrap THEN sn + 1 ELSE sn
                      so2  == IF wrap THEN 0 ELSE so + 1
                  IN  FindLoop(txs, token_lower, sn2, so2, sn2, 0, so2)
             ELSE FindLoop(txs, token_lower, sn, so, i + 1, j2, 0)

Find(txs, token_lower, sn, so) == FindLoop(txs, token_lower, sn, so, sn, 0, so)

\* lines 927-931: the first token of the list, in order, that find locates;
\* the result is [tok, hit], or [tok |-> "", hit |-> <<>>] when none does
RECURSIVE FirstHit(_, _, _, _, _)
FirstHit(txs, tokens, t, pn, po) ==
    IF t > Len(tokens) THEN [tok |-> "", hit |-> <<>>]
    ELSE LET hit == Find(txs, Lower(tokens[t]), pn, po)
         IN  IF hit # <<>> THEN [tok |-> tokens[t], hit |-> hit]
             ELSE FirstHit(txs, tokens, t + 1, pn, po)

\* lines 933-944: the fragments after the match hit is replaced by val
Splice(txs, hit, val) ==
    LET sn == hit[1]
        so == hit[2]
        en == hit[3]
        eo == hit[4]
        left  == Slice(Frag(txs, sn), 0, so)
        right == From(Frag(txs, en), eo)
    IN  [k \in 1 .. Len(txs) |->
            IF k - 1 = sn THEN left \o val \o (IF sn = en THEN right ELSE "")
            ELSE IF k - 1 > sn /\ k - 1 < en THEN ""
            ELSE IF k - 1 > sn /\ k - 1 = en THEN From(txs[k], eo)
            ELSE txs[k]]

\* line 917: all('<' not in t for t in texts[pn:])
NoLtFrom(txs, pn) == \A k \in pn + 1 .. Len(txs) : ~HasCh(txs[k], "<")

\* lines 921-924 and 951-954: the cursor one character further
Advance(txs, pn, po) ==
    IF po + 1 >= Len(Frag(txs, pn)) THEN <<pn + 1, 0>> ELSE <<pn, po + 1>>

\* lines 914-954: the scan loop from cursor (pn, po).  hits lists the tokens
\* substituted so far, in order.
RECURSIVE Scan(_, _, _, _, _, _, _, _)
Scan(txs, tokens, repl, pn, po, changed, logo, hits) ==
    IF pn >= Len(txs) \/ NoLtFrom(txs, pn)
    THEN [texts |-> txs, changed |-> changed, logo |-> logo, hits |-> hits]
    ELSE LET cur == Frag(txs, pn)
             nxt == Advance(txs, pn, po)
         IN  IF po < Len(cur) /\ Ch(cur, po) # "<"
             THEN Scan(txs, tokens, repl, nxt[1], nxt[2], changed, logo, hits)
             ELSE LET f == FirstHit(txs, tokens, 1, pn, po)
                  IN  IF f.hit = <<>>
                      THEN Scan(txs, tokens, repl, nxt[1], nxt[2],
                                changed, logo, hits)
                      ELSE LET isLogo == Lower(f.tok) = PLACEHOLDER_LOGO
                               val == IF isLogo THEN ""
                                      ELSE Get2(repl, f.tok, "")
                           IN  Scan(Splice(txs, f.hit, val), tokens, repl,
                                    f.hit[1], f.hit[2] + Len(val),
                                    TRUE, logo \/ isLogo,
                                    Append(hits, f.tok))

\* AfterPossessive with the changed flag raised as soon as the possessive
\* pattern is found, whether or not the text is rewritten
AfterPossessiveFlagOnSearch(txs, repl) ==
    LET Texts(p) ==
            [texts |-> IF p.changed
                       THEN [k \in 1 .. Len(txs) |->
                                IF k = 1 THEN p.text ELSE ""]
                       ELSE txs,
             changed |-> PossessiveSearch(Join(txs)),
             raised |-> p.raised]
    IN  Texts(HandleSmartPossessive(Join(txs), repl))

\* lines 901-912: the possessive rule over the joined text; when it changes
\* the text, the first fragment takes all of it and the others are blanked
AfterPossessive(txs, repl) ==
    LET Texts(p) ==
            [texts |-> IF p.changed
                       THEN [k \in 1 .. Len(txs) |->
                                IF k = 1 THEN p.text ELSE ""]
                       ELSE txs,
             changed |-> p.changed,
             raised |-> p.raised]
    IN  Texts(HandleSmartPossessive(Join(txs), repl))

\* the text can be stored in an XML tree: lxml refuses control characters
\* other than tab, newline and carriage return, so of the characters of the
\* model the form feed
XmlLegal(s) == ~HasCh(s, "\f")

\* lines 955-956 over the nodes' old texts txs: t.text = nt, node by node.
\* The first text that cannot be stored raises; the assignment has removed
\* the node's text by then, so that node is left empty, the nodes before it
\* hold their new text and the nodes after it keep their old one.
WrittenTexts(txs, new) ==
    [k \in 1 .. Len(txs) |->
        IF \A j \in 1 .. k : XmlLegal(new[j]) THEN new[k]
        ELSE IF \A j \in 1 .. k - 1 : XmlLegal(new[j]) THEN ""
        ELSE txs[k]]

\* lines 955-959: the texts are written back and what discover_placeholders
\* still finds in them, the logo token apart, is returned as unresolved
WriteBack(txs, r) ==
    IF \A k \in 1 .. Len(txs) : XmlLegal(r.texts[k])
    THEN [texts |-> r.texts, changed |-> r.changed, logo |-> r.logo,
          unresolved |-> Unresolved(Join(r.texts)), hits |-> r.hits,
          raised |-> FALSE]
    ELSE [texts |-> WrittenTexts(txs, r.texts), changed |-> FALSE,
          logo |-> FALSE, unresolved |-> {}, hits |-> r.hits,
          raised |-> TRUE]

\* lines 914-959: the scan over the texts a that the possessive rule left
\* of the nodes' texts txs
ScanTokens(txs, a, repl) ==
    WriteBack(txs,
        Scan(a.texts, Tokens(repl), repl, 0, 0, a.changed, FALSE, <<>>))

\* _cross_run_replace_xml over the w:t texts of one paragraph element:
\* the new texts and the returned (changed, logo, unresolved), or the texts
\* the call leaves when it raises
CrossRunReplace(txs, repl) ==
    IF txs = <<>>
    THEN [texts |-> txs, changed |-> FALSE, logo |-> FALSE,
          unresolved |-> {}, hits |-> <<>>, raised |-> FALSE]
    ELSE LET Loop(a) ==
                 IF a.raised
                 THEN [texts |-> txs, changed |-> FALSE, logo |-> FALSE,
                       unresolved |-> {}, hits |-> <<>>, raised |-> TRUE]
                 ELSE ScanTokens(txs, a, repl)
         IN  Loop(AfterPossessive(txs, repl))

----------------------------------------------------------------------------
(* The document: w:p elements, their w:t texts and their images            *)

(* A w:p element is a record
     id    a name for the element, kept while it moves or its text changes
     frags the texts of the w:t nodes of its own runs, in order
     gaps  what the w:tab and w:br elements of its own runs read as ("\t"
           and "\n"): gaps[i] for those before the i-th w:t node, the last
           entry for those after the last node, so Len(gaps) = Len(frags) + 1
     imgs  the w:drawing elements of its own runs: the width of each in mm
           and the stage that inserted it ("orig" for one the document
           came with, "shape" for a drawing that holds a text box)
     tbl   the number of the table it lies in, 0 outside every table
     cell  the number of its cell within that table
     box   the id of the paragraph whose text box holds it, 0 outside
           (tbl and cell are then those of that paragraph)
     align its alignment
     part  the part it belongs to: "body", "header" or "footer"
   The body is the sequence of its w:p elements in document order, the
   paragraphs of a text box right after the paragraph that holds the box.
   Every image sits in a run of its own, after the text runs.  A loaded
   paragraph has one w:t node in each text run and no w:tab or w:br; the
   elements the program creates have ids below zero, one for each place
   that creates one, and the loaded ones ids above zero.                  *)

ALIGN_LEFT == "left"
ALIGN_RIGHT == "right"
ALIGN_NONE == "none"

\* the content of a run or of a paragraph: the texts of its w:t nodes and
\* what lies around them
NoContent == [frags |-> <<>>, gaps |-> <<"">>]

\* one w:t node
TextNode(t) == [frags |-> <<t>>, gaps |-> <<"", "">>]

\* one w:tab ("\t") or w:br ("\n")
GapNode(g) == [frags |-> <<>>, gaps |-> <<g>>]

\* content a followed by content b
Cat(a, b) ==
    [frags |-> a.frags \o b.frags,
     gaps  |-> SubSeq(a.gaps, 1, Len(a.gaps) - 1)
               \o <<a.gaps[Len(a.gaps)] \o b.gaps[1]>> \o Tail(b.gaps)]

\* paragraph.text: the text of the paragraph's own runs, a w:t read as its
\* text, a w:tab as a tab and a w:br as a newline
RECURSIVE Weave(_, _)
Weave(frags, gaps) ==
    IF frags = <<>> THEN Head(gaps)
    ELSE Head(gaps) \o Head(frags) \o Weave(Tail(frags), Tail(gaps))

ParText(p) == Weave(p.frags, p.gaps)

\* run.text = text (CT_R.text): the run is cleared, then the text is read
\* character by character; a tab becomes a w:tab, a newline or carriage
\* return a w:br, and the characters between them a w:t, which raises when
\* its text cannot be stored.  The result is the content the run is left
\* with, and whether the assignment raised; buf is the pending text.
RECURSIVE SplitRunText(_, _)
SplitRunText(text, buf) ==
    LET flushed == IF buf = "" THEN NoContent ELSE TextNode(buf)
        failed  == [frags |-> <<>>, gaps |-> <<"">>, raised |-> TRUE]
    IN  IF ~XmlLegal(buf) /\ (text = "" \/ Ch(text, 0) \in {"\t", "\n", "\r"})
        THEN failed
        ELSE IF text = ""
        THEN [frags |-> flushed.frags, gaps |-> flushed.gaps, raised |-> FALSE]
        ELSE IF Ch(text, 0) \in {"\t", "\n", "\r"}
        THEN LET rest == SplitRunText(From(text, 1), "")
                 gap  == GapNode(IF Ch(text, 0) = "\t" THEN "\t" ELSE "\n")
                 all  == Cat(Cat(flushed, gap), rest)
             IN  [frags |-> all.frags, gaps |-> all.gaps, raised |-> rest.raised]
        ELSE SplitRunText(From(text, 1), buf \o Ch(text, 0))

\* the content of the runs ws, each with one w:t node, after the loop over
\* them: ws[i].old is the text of run i, ws[i].new the text the loop
\* assigns to it, ws[i].set whether it assigns at all, and ws[i].raised
\* whether the loop raises before the assignment.  The loop ends at the
\* first raise, and the runs after it stay as they are.
RECURSIVE SetRuns(_)
SetRuns(ws) ==
    IF ws = <<>> THEN [frags |-> <<>>, gaps |-> <<"">>, raised |-> FALSE]
    ELSE LET w == Head(ws)
             kept == [i \in 1 .. Len(ws) |-> ws[i].old]
             here == IF w.raised THEN [frags |-> kept, gaps |-> [i \in 1 .. Len(ws) + 1 |-> ""], raised |-> TRUE]
                     ELSE IF ~w.set THEN [frags |-> <<w.old>>, gaps |-> <<"", "">>, raised |-> FALSE]
                     ELSE SplitRunText(w.new, "")
             rest == IF here.raised
                     THEN [frags |-> Tail(kept), gaps |-> [i \in 1 .. Len(ws) |-> ""], raised |-> TRUE]
                     ELSE SetRuns(Tail(ws))
             all  == Cat(here, rest)
         IN  IF w.raised THEN here
             ELSE [frags |-> all.frags, gaps |-> all.gaps, raised |-> rest.raised]

\* positions of the paragraphs nested in the text box of the one at pos
BoxOf(b, pos) == {j \in 1 .. Len(b) : b[j].box = b[pos].id}

\* elt.xpath('.//w:drawing') on the w:p at pos: its own drawings and those
\* of the paragraphs nested in it
HasDrawing(b, pos) ==
    b[pos].imgs # <<>> \/ \E j \in BoxOf(b, pos) : b[j].imgs # <<>>

\* the string fallback of lines 979-985 reads the element's repr, which
\* holds none of the indicators
HasImageAnywhereIn(b, pos) == HasDrawing(b, pos)

\* the string fallback of lines 1018-1023 finds nothing either
ParagraphContainsImage(b, pos) == HasDrawing(b, pos)

\* _ancestor_with_images: a tc, tr or tbl ancestor with a drawing below it;
\* what the tbl ancestor holds covers its rows and cells.  A w:txbxContent
\* or w:sdt ancestor is a plain lxml element: every xpath of
\* _has_image_anywhere_in raises on it for want of a namespace map and is
\* skipped, and its repr holds no indicator, so it never counts.
AncestorWithImages(b, pos) ==
    /\ b[pos].tbl # 0
    /\ \E j \in 1 .. Len(b) : b[j].tbl = b[pos].tbl /\ b[j].imgs # <<>>

\* doc.paragraphs: the positions of the w:p children of the body element
RECURSIVE DocParagraphsFrom(_, _)
DocParagraphsFrom(b, i) ==
    IF i > Len(b) THEN <<>>
    ELSE IF b[i].tbl = 0 /\ b[i].box = 0
         THEN <<i>> \o DocParagraphsFrom(b, i + 1)
         ELSE DocParagraphsFrom(b, i + 1)

DocParagraphs(b) == DocParagraphsFrom(b, 1)

\* the sequence without its element at pos: parent.remove(p)
RemoveAt(b, pos) ==
    [i \in 1 .. Len(b) - 1 |-> IF i < pos THEN b[i] ELSE b[i + 1]]

\* lines 693-695: run.text = new for every run of the paragraph, rr[i]
\* being what replace_in_run_text gave for the text olds[i] of run i
RunTexts(olds, rr) ==
    SetRuns([i \in 1 .. Len(rr) |->
                [old |-> olds[i], new |-> rr[i].text, set |-> TRUE,
                 raised |-> rr[i].raised]])

\* the ids of the elements the program creates
COVER_PARAGRAPH == -1
FALLBACK_PARAGRAPH == -2
CellParagraph(t, c) == 0 - (3 + ((t + c) * (t + c + 1)) \div 2 + c)
HEADER_PARAGRAPH == -3
FOOTER_PARAGRAPH == -4
PAGE_BREAK_PARAGRAPH == -5

----------------------------------------------------------------------------
(* is_policy_manual                                                        *)

cover_logo_patterns == <<
    "policy and procedure manual", "business plan", "00",
    "policy and procedures", "handbook", "psychological assessment form",
    "risk assessment guide and checklist",
    "service agreement and schedule of support", "evaluation of competency" >>

IsPolicyManual(name) ==
    \E i \in 1 .. Len(cover_logo_patterns) :
        Contains(Lower(name), cover_logo_patterns[i])

----------------------------------------------------------------------------
(* add_cover_page_logo_large                                               *)

\* the new paragraph, left-aligned, with the logo at width_mm, moved to
\* the front of the body
AddCoverPageLogoLarge(b, width_mm) ==
    <<[id |-> COVER_PARAGRAPH, frags |-> <<>>, gaps |-> <<"">>,
       imgs |-> <<[w |-> width_mm, by |-> "cover"]>>,
       tbl |-> 0, cell |-> 0, box |-> 0,
       align |-> ALIGN_LEFT, part |-> "body"]>> \o b

----------------------------------------------------------------------------
(* detect_header_context and process_par_safe_logo_smart                   *)

DEFAULT_WIDTH == 35
HEADER_WIDTH == 20
FOOTER_WIDTH == 15
HEADER_TABLE_WIDTH == 18
BODY_TABLE_WIDTH == 25

\* line 657 on a paragraph that had the attribute: lines 658-663 are reached
PartTypeRaisesNever(p) == FALSE

\* line 657: paragraph._part.  A Paragraph of python-docx has the attributes
\* part and _parent and none called _part, so the read raises
\* AttributeError for the paragraphs of every part and the handler of line
\* 664 passes: lines 658-663 are never reached.
PartTypeRaises(p) == TRUE

\* detect_header_context: is_header and is_footer stay False, so the width
\* is the default outside a table cell and the body-table width inside one
DetectHeaderContext(p) ==
    LET read == ~PartTypeRaises(p)
        is_header == read /\ p.part = "header"
        is_footer == read /\ ~is_header /\ p.part = "footer"
        is_in_table == p.tbl # 0
    IN  [is_header |-> is_header,
         is_footer |-> is_footer,
         is_in_table |-> is_in_table,
         recommended_width |->
             IF is_in_table
             THEN IF is_header THEN HEADER_TABLE_WIDTH ELSE BODY_TABLE_WIDTH
             ELSE IF is_header THEN HEADER_WIDTH
             ELSE IF is_footer THEN FOOTER_WIDTH
             ELSE DEFAULT_WIDTH]

\* lines 693-728: the texts of the runs are set, then the logo goes into a
\* paragraph whose runs gave the results rr, those of the text runs first.
\* logo is "none" (no path given), "missing" (a path to no file) or "ok";
\* the width comes from detect_header_context, not from the caller.  The
\* loop of line 693 goes over every run, the runs that hold a drawing too:
\* run.text = new clears the run before it writes the text, so a loop that
\* gets past the text runs leaves the paragraph without the drawings it
\* had.  When the loop raises, which it can only in a text run, the call
\* ends there, returns nothing and the drawings stay.
InsertLogoSmart(p, rr, logo, dry) ==
    LET logo_trig == \E i \in 1 .. Len(rr) : rr[i].logo
        place == logo_trig /\ logo # "none" /\ ~dry
        logo_inserted == place /\ logo = "ok"
        smart_width == DetectHeaderContext(p).recommended_width
        runs == RunTexts(p.frags, SubSeq(rr, 1, Len(p.frags)))
    IN  IF runs.raised
        THEN [p |-> [p EXCEPT !.frags = runs.frags, !.gaps = runs.gaps],
              changed |-> FALSE, logo_inserted |-> FALSE, unresolved |-> {},
              raised |-> TRUE]
        ELSE [p |-> [p EXCEPT
                       !.frags = runs.frags,
                       !.gaps = runs.gaps,
                       !.align = IF place THEN ALIGN_RIGHT ELSE @,
                       !.imgs = IF logo_inserted
                                THEN <<[w |-> smart_width, by |-> "body"]>>
                                ELSE <<>>],
              changed |-> (\E i \in 1 .. Len(rr) : rr[i].changed) \/ logo_inserted,
              logo_inserted |-> logo_inserted,
              unresolved |-> UNION {rr[i].unresolved : i \in 1 .. Len(rr)},
              raised |-> FALSE]

\* process_par_safe_logo_smart: replace_in_run_text over every run of the
\* paragraph (lines 690-697), a run that holds a drawing reading as the
\* empty text, then the logo (lines 699-728)
ProcessParSafeLogoSmart(p, repl, logo, width_mm, dry) ==
    InsertLogoSmart(p,
        [i \in 1 .. Len(p.frags) + Len(p.imgs) |->
            ReplaceInRunText(IF i <= Len(p.frags) THEN p.frags[i] ELSE "",
                             repl)],
        logo, dry)


----------------------------------------------------------------------------
(* process_shape_textboxes_enhanced                                        *)

\* process_shape_textboxes_enhanced: doc.element is a python-docx element,
\* whose xpath takes the expression alone, so the call of line 757 with
\* namespaces= raises TypeError before anything is read; the handler of
\* line 813 returns False and the document stays as it is.  Lines 758-811
\* and process_textbox_content_enhanced are never reached.
ProcessShapeTextboxes(b, repl) == [body |-> b, changed |-> FALSE]

----------------------------------------------------------------------------
(* process_header_paragraph_original_safe                                  *)

\* the loop over repl.items() of lines 1232-1235, from entry i of the map
\* on: a plain, case-sensitive str.replace for every key but the logo key
\* that is found in the text
RECURSIVE ItemSubs(_, _, _, _)
ItemSubs(text, changed, repl, i) ==
    IF i > Len(repl) THEN [text |-> text, changed |-> changed]
    ELSE LET placeholder == repl[i].k
         IN  IF /\ Lower(placeholder) # PLACEHOLDER_LOGO
                /\ Contains(text, placeholder)
             THEN ItemSubs(StrReplace(text, placeholder, repl[i].v), TRUE,
                           repl, i + 1)
             ELSE ItemSubs(text, changed, repl, i + 1)

\* lines 1227-1244 for one run: the text it is given, and whether line 1244
\* is reached
HeaderRun(original_text, repl) ==
    IF original_text # "" /\ HasCh(original_text, "<")
    THEN LET s == ItemSubs(original_text, FALSE, repl, 1)
             logo_found == Contains(Lower(s.text), PLACEHOLDER_LOGO)
         IN  [text |-> IF logo_found
                       THEN ReSubCI(PLACEHOLDER_LOGO, "", s.text).text
                       ELSE s.text,
              changed |-> s.changed \/ logo_found,
              logo |-> logo_found,
              set |-> TRUE]
    ELSE [text |-> original_text, changed |-> FALSE, logo |-> FALSE,
          set |-> FALSE]

\* lines 1226-1244: run.text = new_text for the runs that hold a <, rr[i]
\* being what HeaderRun gave for the text olds[i] of run i
HeaderRunTexts(olds, rr) ==
    SetRuns([i \in 1 .. Len(rr) |->
                [old |-> olds[i], new |-> rr[i].text, set |-> rr[i].set,
                 raised |-> FALSE]])

\* what the handler of lines 1265-1267 returns for the paragraph p, left
\* with the content runs
HeaderRaised(p, runs) ==
    [p |-> [p EXCEPT !.frags = runs.frags, !.gaps = runs.gaps],
     changed |-> FALSE, logos_inserted |-> 0]

\* ProcessHeaderParagraph that right-aligns the paragraph it inserts into,
\* as the body pass does
ProcessHeaderParagraphRightAligned(p, repl, logo, width_mm, dry) ==
    LET rr == [i \in 1 .. Len(p.frags) |-> HeaderRun(p.frags[i], repl)]
        runs == HeaderRunTexts(p.frags, rr)
        logo_found == \E i \in 1 .. Len(rr) : rr[i].logo
        inserted == logo_found /\ logo = "ok" /\ ~dry
    IN  IF runs.raised THEN HeaderRaised(p, runs)
        ELSE [p |-> [p EXCEPT
                       !.frags = runs.frags,
                       !.gaps = runs.gaps,
                       !.align = IF inserted THEN ALIGN_RIGHT ELSE @,
                       !.imgs = IF inserted
                                THEN Append(@, [w |-> width_mm, by |-> "header"])
                                ELSE @],
              changed |-> (\E i \in 1 .. Len(rr) : rr[i].changed) \/ inserted,
              logos_inserted |-> IF inserted THEN 1 ELSE 0]

\* ProcessHeaderParagraph without the dry test of line 1248
ProcessHeaderParagraphAlsoDry(p, repl, logo, width_mm, dry) ==
    LET rr == [i \in 1 .. Len(p.frags) |-> HeaderRun(p.frags[i], repl)]
        runs == HeaderRunTexts(p.frags, rr)
        logo_found == \E i \in 1 .. Len(rr) : rr[i].logo
        inserted == logo_found /\ logo = "ok"
    IN  IF runs.raised THEN HeaderRaised(p, runs)
        ELSE [p |-> [p EXCEPT
                       !.frags = runs.frags,
                       !.gaps = runs.gaps,
                       !.imgs = IF inserted
                                THEN Append(@, [w |-> width_mm, by |-> "header"])
                                ELSE @],
              changed |-> (\E i \in 1 .. Len(rr) : rr[i].changed) \/ inserted,
              logos_inserted |-> IF inserted THEN 1 ELSE 0]

\* ProcessHeaderParagraph that returns changed = False whatever it did
ProcessHeaderParagraphUnflagged(p, repl, logo, width_mm, dry) ==
    LET rr == [i \in 1 .. Len(p.frags) |-> HeaderRun(p.frags[i], repl)]
        runs == HeaderRunTexts(p.frags, rr)
        logo_found == \E i \in 1 .. Len(rr) : rr[i].logo
        inserted == logo_found /\ logo = "ok" /\ ~dry
    IN  IF runs.raised THEN HeaderRaised(p, runs)
        ELSE [p |-> [p EXCEPT
                       !.frags = runs.frags,
                       !.gaps = runs.gaps,
                       !.imgs = IF inserted
                                THEN Append(@, [w |-> width_mm, by |-> "header"])
                                ELSE @],
              changed |-> FALSE,
              logos_inserted |-> IF inserted THEN 1 ELSE 0]

\* process_header_paragraph_original_safe: the paragraph after the call and
\* the returned (changed, logos_inserted); the alignment is not touched.
\* When an assignment of line 1244 raises, the handler of line 1265 returns
\* (False, 0) and the runs set so far keep their new text.
ProcessHeaderParagraph(p, repl, logo, width_mm, dry) ==
    LET rr == [i \in 1 .. Len(p.frags) |-> HeaderRun(p.frags[i], repl)]
        runs == HeaderRunTexts(p.frags, rr)
        logo_found == \E i \in 1 .. Len(rr) : rr[i].logo
        inserted == logo_found /\ logo = "ok" /\ ~dry
    IN  IF runs.raised THEN HeaderRaised(p, runs)
        ELSE [p |-> [p EXCEPT
                       !.frags = runs.frags,
                       !.gaps = runs.gaps,
                       !.imgs = IF inserted
                                THEN Append(@, [w |-> width_mm, by |-> "header"])
                                ELSE @],
              changed |-> (\E i \in 1 .. Len(rr) : rr[i].changed) \/ inserted,
              logos_inserted |-> IF inserted THEN 1 ELSE 0]

\* sum of the logos_inserted of the results
RECURSIVE SumInserted(_)
SumInserted(rs) ==
    IF rs = <<>> THEN 0 ELSE Head(rs).logos_inserted + SumInserted(Tail(rs))

----------------------------------------------------------------------------
(* prune_or_rescue_body_shapes and rescue_header_footer_shapes             *)

\* the w:p elements whose w:t nodes p.xpath('.//w:t') returns for the
\* paragraph at pos: itself, then the paragraphs nested in its text box
RECURSIVE NestedFrom(_, _, _)
NestedFrom(b, id, j) ==
    IF j > Len(b) THEN <<>>
    ELSE IF b[j].box = id THEN <<j>> \o NestedFrom(b, id, j + 1)
         ELSE NestedFrom(b, id, j + 1)

Owners(b, pos) == <<pos>> \o NestedFrom(b, b[pos].id, 1)

RECURSIVE NodesOf(_, _)
NodesOf(b, owners) ==
    IF owners = <<>> THEN <<>>
    ELSE b[Head(owners)].frags \o NodesOf(b, Tail(owners))

\* the nodes' new texts written back, each to the w:t it came from
RECURSIVE PutNodes(_, _, _)
PutNodes(b, owners, txs) ==
    IF owners = <<>> THEN b
    ELSE LET o == Head(owners)
             n == Len(b[o].frags)
         IN  PutNodes([b EXCEPT ![o].frags = SubSeq(txs, 1, n)],
                      Tail(owners), SubSeq(txs, n + 1, Len(txs)))

\* position in the live body of the element with this id
PosOf(b, id) == CHOOSE j \in 1 .. Len(b) : b[j].id = id

\* lines 1098-1103 with a flag that starts False and is set by a token
\* without a value: some token of the paragraph has no value, or a blank
\* one
AllBlankAnyToken(tokens_in_par, repl) ==
    \E tok \in tokens_in_par :
        ~(HasKey(repl, tok) \/ HasKey(repl, Lower(tok)))
        \/ Strip(Get2(repl, tok, "")) = ""

\* lines 1098-1103: every token of the paragraph has no value, or a blank one
AllBlank(tokens_in_par, repl) ==
    \A tok \in tokens_in_par :
        ~(HasKey(repl, tok) \/ HasKey(repl, Lower(tok)))
        \/ Strip(Get2(repl, tok, "")) = ""

\* lines 1075-1079, over the snapshot taken before the loop (idx 0-based)
NeighbourImage(has_img_here, idx) ==
    \/ has_img_here[idx + 1]
    \/ idx > 0 /\ has_img_here[idx]
    \/ idx + 1 < Len(has_img_here) /\ has_img_here[idx + 2]

----------------------------------------------------------------------------
(* Version control: get_ordinal_date, the date patterns, the table update  *)
(* and the layout step                                                     *)

DigitChars == {"0", "1", "2", "3", "4", "5", "6", "7", "8", "9"}

MonthNames == <<"January", "February", "March", "April", "May", "June", "July",
                "August", "September", "October", "November", "December">>

\* get_ordinal_date
GetOrdinalDate(date_obj) ==
    LET day == date_obj.day
        suffix == IF 10 <= day /\ day <= 20 THEN "th"
                  ELSE IF day % 10 = 1 THEN "st"
                  ELSE IF day % 10 = 2 THEN "nd"
                  ELSE IF day % 10 = 3 THEN "rd"
                  ELSE "th"
    IN  ToString(day) \o suffix \o " of " \o MonthNames[date_obj.month]
        \o " " \o ToString(date_obj.year)

IsLeap(year) == year % 4 = 0 /\ (year % 100 # 0 \/ year % 400 = 0)

\* today.replace(year=today.year + 1) raises ValueError when that day does
\* not exist in the next year
ReplaceYearFails(today) ==
    today.month = 2 /\ today.day = 29 /\ ~IsLeap(today.year + 1)

\* get_version_control_dates, where the replace succeeds
GetVersionControlDates(today) ==
    [current_date |-> GetOrdinalDate(today),
     next_review_date |-> GetOrdinalDate([today EXCEPT !.year = @ + 1])]

\* end of the longest run of characters of class cls that starts at i
RECURSIVE RunEnd(_, _, _)
RunEnd(s, i, cls) ==
    IF i < Len(s) /\ Ch(s, i) \in cls THEN RunEnd(s, i + 1, cls) ELSE i

\* \d{4} at i: the end of the match, or -1
Digits4At(s, i) ==
    IF i + 4 <= Len(s) /\ \A k \in i .. i + 3 : Ch(s, k) \in DigitChars
    THEN i + 4 ELSE -1

\* \s+\d{4} at i
SpaceYearAt(s, i) ==
    LET e == RunEnd(s, i, SpaceChars)
    IN  IF e > i THEN Digits4At(s, e) ELSE -1

\* \w+\s+\d{4} at i; a shorter \w+ or \s+ never lets the rest match
WordYearAt(s, i) ==
    LET e == RunEnd(s, i, WordChars)
    IN  IF e > i THEN SpaceYearAt(s, e) ELSE -1

\* \d+(?:st|nd|rd|th)\s+of\s+\w+\s+\d{4} at i, letter case ignored
OrdinalDateAt(s, i) ==
    LET d  == RunEnd(s, i, DigitChars)
        s1 == RunEnd(s, d + 2, SpaceChars)
        s2 == RunEnd(s, s1 + 2, SpaceChars)
    IN  IF /\ d > i
           /\ Lower(Slice(s, d, d + 2)) \in {"st", "nd", "rd", "th"}
           /\ d + 2 <= Len(s)
           /\ s1 > d + 2
           /\ Lower(Slice(s, s1, s1 + 2)) = "of"
           /\ s1 + 2 <= Len(s)
           /\ s2 > s1 + 2
        THEN WordYearAt(s, s2)
        ELSE -1

\* date_patterns[k] matched at i
DatePatternAt(k, s, i) ==
    IF k = 1 THEN OrdinalDateAt(s, i)
    ELSE IF k = 2 THEN WordYearAt(s, i)
    ELSE Digits4At(s, i)

\* re.search(date_patterns[k], text, re.IGNORECASE)
DatePatternSearch(k, s) == \E i \in 0 .. Len(s) - 1 : DatePatternAt(k, s, i) # -1

\* re.sub(date_patterns[k], v, text): leftmost matches, left to right
RECURSIVE DatePatternSub(_, _, _, _)
DatePatternSub(k, s, v, i) ==
    IF i >= Len(s) THEN ""
    ELSE LET e == DatePatternAt(k, s, i)
         IN  IF e # -1 THEN v \o DatePatternSub(k, s, v, e)
             ELSE Ch(s, i) \o DatePatternSub(k, s, v, i + 1)

\* re.search(r'202[6-9]|20[3-9]\d', text)
HasNextReviewYear(s) ==
    \E i \in 0 .. Len(s) - 4 :
        \/ Slice(s, i, i + 3) = "202" /\ Ch(s, i + 3) \in {"6", "7", "8", "9"}
        \/ /\ Slice(s, i, i + 2) = "20"
           /\ Ch(s, i + 2) \in {"3", "4", "5", "6", "7", "8", "9"}
           /\ Ch(s, i + 3) \in DigitChars

\* re.search(r'202[0-5]', text)
HasCurrentYear(s) ==
    \E i \in 0 .. Len(s) - 4 :
        Slice(s, i, i + 3) = "202"
        /\ Ch(s, i + 3) \in {"0", "1", "2", "3", "4", "5"}

\* lines 85-101 for the text of one cell: the first pattern that is found
\* decides, and the whole cell is classified by the years it holds
UpdateCellText(text, dates) ==
    LET found == {k \in 1 .. 3 : DatePatternSearch(k, text)}
        k == CHOOSE m \in found : \A n \in found : m <= n
    IN  IF found = {} THEN [text |-> text, updated |-> FALSE]
        ELSE IF HasNextReviewYear(text)
        THEN [text |-> DatePatternSub(k, text, dates.next_review_date, 0),
              updated |-> TRUE]
        ELSE IF HasCurrentYear(text)
        THEN [text |-> DatePatternSub(k, text, dates.current_date, 0),
              updated |-> TRUE]
        ELSE [text |-> text, updated |-> FALSE]

\* "\n".join(seq)
RECURSIVE JoinLines(_)
JoinLines(seq) ==
    IF seq = <<>> THEN ""
    ELSE IF Len(seq) = 1 THEN Head(seq)
    ELSE Head(seq) \o "\n" \o JoinLines(Tail(seq))

\* positions of the paragraphs of a cell: cell.paragraphs
RECURSIVE CellParagraphsFrom(_, _, _, _)
CellParagraphsFrom(b, t, c, j) ==
    IF j > Len(b) THEN <<>>
    ELSE IF b[j].tbl = t /\ b[j].cell = c /\ b[j].box = 0
         THEN <<j>> \o CellParagraphsFrom(b, t, c, j + 1)
         ELSE CellParagraphsFrom(b, t, c, j + 1)

CellParagraphs(b, t, c) == CellParagraphsFrom(b, t, c, 1)

\* cell.text
CellText(b, t, c) ==
    JoinLines([i \in 1 .. Len(CellParagraphs(b, t, c)) |->
                  ParText(b[CellParagraphs(b, t, c)[i]])])

\* doc.tables with the cells of each table (row.cells of its rows): tbls
\* maps the number of a table to the numbers of its cells.  A table keeps
\* its cells whatever happens to the paragraphs in them.
CellsOf(tbls, t) == tbls[t]

version_control_keywords == <<"drafted", "version control", "reviewed", "amendment">>

\* lines 61-67: the lower-cased texts of the cells, a blank after each
RECURSIVE TableTextFrom(_, _, _)
TableTextFrom(b, t, cells) ==
    IF cells = {} THEN ""
    ELSE LET c == CHOOSE m \in cells : \A n \in cells : m <= n
         IN  Lower(CellText(b, t, c)) \o " " \o TableTextFrom(b, t, cells \ {c})

IsVersionControlTable(b, tbls, t) ==
    \E i \in 1 .. Len(version_control_keywords) :
        Contains(TableTextFrom(b, t, CellsOf(tbls, t)), version_control_keywords[i])

\* the subsequence of b at the positions outside drop
RECURSIVE KeepFrom(_, _, _)
KeepFrom(b, drop, j) ==
    IF j > Len(b) THEN <<>>
    ELSE IF j \in drop THEN KeepFrom(b, drop, j + 1)
         ELSE <<b[j]>> \o KeepFrom(b, drop, j + 1)

\* cell.text = new_text: the cell's content is cleared and one new
\* paragraph with one run takes the text, a w:br for every newline of it
SetCellText(b, t, c, new_text) ==
    LET first == Head(CellParagraphs(b, t, c))
        gone  == {j \in 1 .. Len(b) : b[j].tbl = t /\ b[j].cell = c /\ j # first}
        run   == SplitRunText(new_text, "")
        new_p == [id |-> CellParagraph(t, c),
                  frags |-> run.frags, gaps |-> run.gaps,
                  imgs |-> <<>>, tbl |-> t, cell |-> c, box |-> 0,
                  align |-> ALIGN_NONE, part |-> "body"]
    IN  [body |-> KeepFrom([b EXCEPT ![first] = new_p], gone, 1),
         raised |-> run.raised]

\* lines 71-136: the cells of the table, one after the other; an
\* assignment of line 118 that raises ends the loop
RECURSIVE UpdateCells(_, _, _, _)
UpdateCells(b, t, cells, dates) ==
    IF cells = {} THEN [body |-> b, raised |-> FALSE]
    ELSE LET c == CHOOSE m \in cells : \A n \in cells : m <= n
             text == CellText(b, t, c)
             u == UpdateCellText(text, dates)
             set == SetCellText(b, t, c, u.text)
         IN  IF Strip(text) # "" /\ u.updated
             THEN IF set.raised THEN set
                  ELSE UpdateCells(set.body, t, cells \ {c}, dates)
             ELSE UpdateCells(b, t, cells \ {c}, dates)

\* find_and_update_version_control_table: tbls is doc.tables; the first
\* table with a keyword is updated and ends the search.  The handler of
\* line 143 turns a raise into False.
FindAndUpdateVersionControlTable(b, tbls, today) ==
    LET vc == {t \in DOMAIN tbls : IsVersionControlTable(b, tbls, t)}
        t  == CHOOSE m \in vc : \A n \in vc : m <= n
        u  == UpdateCells(b, t, CellsOf(tbls, t), GetVersionControlDates(today))
    IN  IF ReplaceYearFails(today) \/ vc = {}
        THEN [body |-> b, updated |-> FALSE]
        ELSE [body |-> u.body, updated |-> ~u.raised]

\* lines 212-215: the test on a paragraph of doc.paragraphs
IsVersionHeading(p) ==
    /\ Contains(Lower(Strip(ParText(p))), "version control")
    /\ Contains(Lower(Strip(ParText(p))), "table")

\* index in doc.paragraphs of the first heading, 0 if there is none
VersionHeadingIndex(b) ==
    LET dp == DocParagraphs(b)
        hs == {i \in 1 .. Len(dp) : IsVersionHeading(b[dp[i]])}
    IN  IF hs = {} THEN 0 ELSE CHOOSE i \in hs : \A k \in hs : i <= k

\* not para.text.strip()
IsBlank(p) == Strip(ParText(p)) = ""

\* move_version_control_to_own_page: the blank paragraphs right after and
\* right before the heading are removed, with what is nested in them; the
\* lookup of lines 245-246 then raises for the first table of the document,
\* which the handler of line 263 turns into False
RemoveBlanksAround(b, tbls, h) ==
    LET dp == DocParagraphs(b)
        after  == {i \in h + 1 .. Len(dp) :
                      \A k \in h + 1 .. i : IsBlank(b[dp[k]])}
        before == {i \in 1 .. h - 1 :
                      \A k \in i .. h - 1 : IsBlank(b[dp[k]])}
        hosts == {dp[i] : i \in after \cup before}
        gone  == hosts \cup {j \in 1 .. Len(b) :
                                \E o \in hosts : b[j].box = b[o].id}
    IN  IF h = 0 THEN [body |-> b, moved |-> FALSE]
        ELSE [body |-> KeepFrom(b, gone, 1), moved |-> DOMAIN tbls = {}]

\* move_version_control_to_own_page: the heading is looked up (lines
\* 211-215), then the blank paragraphs around it go
MoveVersionControlToOwnPage(b, tbls) ==
    RemoveBlanksAround(b, tbls, VersionHeadingIndex(b))

\* lines 428-431: the move after the update u, and the result of the two
MoveAfterUpdate(u, tbls) ==
    LET m == MoveVersionControlToOwnPage(u.body, tbls)
    IN  [body |-> m.body, processed |-> u.updated \/ m.moved]

\* process_version_control_table
ProcessVersionControlTable(b, tbls, today) ==
    MoveAfterUpdate(FindAndUpdateVersionControlTable(b, tbls, today), tbls)

----------------------------------------------------------------------------
(* The report and the idle values of process_docx's state                  *)

\* the report of lines 1275-1287 (file and output left out)
NewReport ==
    [changed |-> FALSE,
     placeholders_found |-> {},
     placeholders_missing |-> {},
     logos_inserted_body |-> 0,
     logos_inserted_headers |-> 0,
     version_control_processed |-> 0,
     xml_logo_hits |-> 0,
     xml_paras_changed |-> 0,
     xml_paras_pruned |-> 0]

\* the locals of prune_or_rescue_body_shapes before it is entered
NoPrune ==
    [paragraphs |-> <<>>, has_img_here |-> <<>>, idx |-> 0,
     changed_count |-> 0, logo_hits |-> 0, pruned_count |-> 0]

\* a run in which no stage raises
NoFault == [stage |-> "none", at |-> 0]

NoInput ==
    [name |-> "", repl |-> <<>>, logo |-> "none", width_mm |-> 0,
     dry |-> FALSE, today |-> [day |-> 1, month |-> 1, year |-> 2026],
     fault |-> NoFault]

\* the function a stage calls raises in this run: on entry, or for the body
\* pass, where process_par_safe_logo_smart is called once per paragraph, on
\* the call after inp.fault.at calls that returned.  For "load" it is
\* Document(input_path) that raises, for "save" doc.save(output_path).
Raises(stage) == inp.fault.stage = stage

\* a handler that jumped over the stage that follows
ExceptHandlerSkippingNext(stage) ==
    CASE stage = "cover" -> "body"
      [] stage = "shapes" -> "hf"
      [] stage = "body" -> "prune"
      [] stage = "hf" -> "hfshapes"
      [] stage = "prune" -> "vc"
      [] stage = "hfshapes" -> "fallback"
      [] stage = "vc" -> "save"
      [] stage = "load" -> "done"
      [] stage = "save" -> "done"

\* a stage whose handler re-raised would end process_docx
ExceptHandlerReraising(stage) == "done"

\* the except clauses of lines 1342, 1354, 1395, 1409, 1420, 1430 and 1445:
\* the error is printed and process_docx goes on with the next stage; those
\* of lines 1292 and 1468 return the report as it is
ExceptHandler(stage) ==
    CASE stage = "cover" -> "shapes"
      [] stage = "shapes" -> "body"
      [] stage = "body" -> "hf"
      [] stage = "hf" -> "prune"
      [] stage = "prune" -> "hfshapes"
      [] stage = "hfshapes" -> "vc"
      [] stage = "vc" -> "fallback"
      [] stage = "load" -> "done"
      [] stage = "save" -> "done"

----------------------------------------------------------------------------
(* Resolver harness: one container, resolved twice in succession           *)

MaxParts == 2
MaxFrags == 3

\* Each case is a Replacement Map with the vocabulary its containers are
\* written in: known tokens in either letter case, a token with a shared
\* prefix, an unknown token, literal < and plain text, the logo token, and
\* the company-name token in possessive position.  The last map has a
\* company name that is no template of re.sub and a value that no w:t can
\* hold, so that the pass raises.
Cases == <<
    [repl   |-> <<[k |-> "<a>", v |-> "X"], [k |-> "<ab>", v |-> ""],
                  [k |-> "<logo>", v |-> ""]>>,
     corpus |-> <<"<a>", "<A>", "<ab>", "<u>", "<", "x", "<logo>">>],
    [repl   |-> <<[k |-> "<company name>", v |-> "Jones"],
                  [k |-> "<a>", v |-> " "]>>,
     corpus |-> <<"<company name>'s", "<company <a>name>'s", "<a>", "s">>],
    [repl   |-> <<[k |-> "<a>", v |-> "Smith"]>>,
     corpus |-> <<"<company name>'s", "<a>'s", "<">>],
    [repl   |-> <<[k |-> "<company name>", v |-> "R\\1"],
                  [k |-> "<a>", v |-> "f\fg"]>>,
     corpus |-> <<"<company name>'s", "<a>", "x">>] >>

RECURSIVE TextsOf(_, _)
TextsOf(corpus, n) ==
    IF n = 0 THEN {""}
    ELSE LET shorter == TextsOf(corpus, n - 1)
         IN  shorter \cup
             {t \o corpus[i] : t \in shorter, i \in 1 .. Len(corpus)}

\* every way of cutting s into n consecutive fragments (empty ones included)
RECURSIVE CutsInto(_, _)
CutsInto(s, n) ==
    IF n = 1 THEN {<<s>>}
    ELSE UNION { { <<Slice(s, 0, c)>> \o rest : rest \in CutsInto(From(s, c), n - 1) } :
                 c \in 0 .. Len(s) }

NoResult == [texts |-> <<>>, changed |-> FALSE, logo |-> FALSE,
             unresolved |-> {}, hits |-> <<>>, raised |-> FALSE]

\* the scan loop is not running
NoScan == [at |-> "idle", pn |-> 0, po |-> 0]

InitResolver ==
    /\ \E c \in 1 .. Len(Cases) :
          /\ rmap = Cases[c].repl
          /\ \E s \in TextsOf(Cases[c].corpus, MaxParts), n \in 1 .. MaxFrags :
                texts \in CutsInto(s, n)
    /\ orig = texts
    /\ pass = 0
    /\ scan = NoScan
    /\ ret = <<>>
    /\ res1 = NoResult
    /\ res2 = NoResult
    /\ inp = NoInput
    /\ doc0 = [body |-> <<>>, hf |-> <<>>]
    /\ body = <<>>
    /\ hf = <<>>
    /\ tables = <<>>
    /\ report = NewReport
    /\ pc = "idle"
    /\ pr = NoPrune
    /\ saved = FALSE

\* first pass of the resolver over the container
Resolve ==
    /\ pass = 0
    /\ res1' = CrossRunReplace(texts, rmap)
    /\ texts' = res1'.texts
    /\ pass' = 1
    /\ UNCHANGED <<scan, ret>>
    /\ UNCHANGED <<orig, rmap, res2, docVars>>

\* second pass over the output of the first
ResolveAgain ==
    /\ pass = 1
    /\ res2' = CrossRunReplace(texts, rmap)
    /\ texts' = res2'.texts
    /\ pass' = 2
    /\ UNCHANGED <<scan, ret>>
    /\ UNCHANGED <<orig, rmap, res1, docVars>>

NextResolver == Resolve \/ ResolveAgain

SpecResolver == InitResolver /\ [][NextResolver]_vars

----------------------------------------------------------------------------
(* The documents and arguments process_docx is run on                      *)

MaxBlocks == 3
MaxLogoBlocks == 1

\* A block is what a body holds at one place: a paragraph, a table (its
\* paragraphs carry their cell number) or a paragraph with a text box (the
\* nested paragraphs carry nested = TRUE).
Par(frags) == <<[frags |-> frags, img |-> "", cell |-> 0, nested |-> FALSE]>>
ImagePar(frags) == <<[frags |-> frags, img |-> "orig", cell |-> 0, nested |-> FALSE]>>
CellPar(frags, c) == <<[frags |-> frags, img |-> "", cell |-> c, nested |-> FALSE]>>
CellImagePar(c) == <<[frags |-> <<>>, img |-> "orig", cell |-> c, nested |-> FALSE]>>
BoxPar(frags) == <<[frags |-> frags, img |-> "shape", cell |-> 0, nested |-> FALSE]>>
InBox(frags) == <<[frags |-> frags, img |-> "", cell |-> 0, nested |-> TRUE]>>
InBoxImage == <<[frags |-> <<>>, img |-> "orig", cell |-> 0, nested |-> TRUE]>>

\* the w:p elements of the blocks, in document order; block k is table k
\* when it is a table, so tables are numbered in document order
RECURSIVE MkBody(_, _, _)
MkBody(blocks, k, acc) ==
    IF k > Len(blocks) THEN acc
    ELSE LET blk  == blocks[k]
             base == Len(acc)
             ps   == [i \in 1 .. Len(blk) |->
                        [id |-> base + i,
                         frags |-> blk[i].frags,
                         gaps |-> [g \in 1 .. Len(blk[i].frags) + 1 |-> ""],
                         imgs |-> IF blk[i].img = "" THEN <<>>
                                  ELSE <<[w |-> 0, by |-> blk[i].img]>>,
                         tbl |-> IF blk[i].cell # 0 THEN k ELSE 0,
                         cell |-> blk[i].cell,
                         box |-> IF blk[i].nested THEN base + 1 ELSE 0,
                         align |-> ALIGN_NONE,
                         part |-> "body"]]
         IN  MkBody(blocks, k + 1, acc \o ps)

\* one paragraph of a header or footer part
HfPar(id, frags, part, tbl, img) ==
    [id |-> id, frags |-> frags,
     gaps |-> [g \in 1 .. Len(frags) + 1 |-> ""],
     imgs |-> IF img THEN <<[w |-> 0, by |-> "orig"]>> ELSE <<>>,
     tbl |-> tbl, cell |-> tbl, box |-> 0, align |-> ALIGN_NONE, part |-> part]

\* the sequences of 1..n blocks of a palette
BlocksUpTo(palette, n) == UNION {[1 .. m -> palette] : m \in 1 .. n}

Today == [day |-> 30, month |-> 10, year |-> 2026]
LeapDay == [day |-> 29, month |-> 2, year |-> 2028]

Args(name, repl, logo, width_mm, dry, today) ==
    [name |-> name, repl |-> repl, logo |-> logo, width_mm |-> width_mm,
     dry |-> dry, today |-> today, fault |-> NoFault]

\* paragraphs with unknown and blank-valued tokens next to images and tables
PruneFamily ==
    [bodies  |-> BlocksUpTo({ImagePar(<<>>), Par(<<"<u>">>), Par(<<"<region>">>),
                             Par(<<"x">>), CellPar(<<"<u>">>, 1),
                             CellImagePar(1) \o CellPar(<<"<u>">>, 2)},
                            MaxBlocks),
     headers |-> {<<>>},
     args    |-> {Args("Letter.docx", <<[k |-> "<region>", v |-> ""]>>,
                       "none", 35, dry, Today) : dry \in BOOLEAN}]

\* the logo token in body, table, header and footer, whole and split
LogoFamily ==
    [bodies  |-> BlocksUpTo({Par(<<"<logo>">>), Par(<<"<lo", "go>">>), Par(<<"x">>),
                             CellPar(<<"<logo>">>, 1), ImagePar(<<"<Logo>">>)},
                            MaxLogoBlocks),
     headers |-> {<<>>,
                  <<HfPar(1, <<"<logo>">>, "header", 0, FALSE)>>,
                  <<HfPar(1, <<"<Logo>">>, "header", 1, FALSE)>>,
                  <<HfPar(1, <<"<logo>">>, "footer", 0, FALSE)>>,
                  <<HfPar(1, <<"<lo", "go>">>, "header", 0, FALSE)>>},
     args    |-> {Args(name, repl, lw[1], lw[2], dry, Today) :
                     name \in {"Letter.docx", "Staff Handbook.docx"},
                     repl \in {<<[k |-> "<logo>", v |-> ""]>>,
                               <<[k |-> "<a>", v |-> "X"]>>},
                     lw \in {<<"none", 35>>, <<"ok", 15>>, <<"ok", 40>>,
                             <<"missing", 40>>},
                     dry \in BOOLEAN}]

\* the company-name token in possessive position
PossessiveFamily ==
    [bodies  |-> BlocksUpTo({Par(<<"<company name>'s">>),
                             Par(<<"<company name>", "'s">>),
                             Par(<<"<company", " name>'s">>),
                             CellPar(<<"<Company Name>'s">>, 1),
                             BoxPar(<<>>) \o InBox(<<"<company name>'s">>)}, 1),
     headers |-> {<<>>, <<HfPar(1, <<"<company name>'s">>, "header", 0, FALSE)>>},
     args    |-> {Args("Letter.docx", <<[k |-> "<company name>", v |-> v]>>,
                       "ok", 30, dry, Today) :
                     v \in {"Jones", "Smith"}, dry \in BOOLEAN}]

\* a version-control heading and table among blank and image paragraphs
VersionFamily ==
    [bodies  |-> BlocksUpTo({Par(<<"Version Control Table">>), Par(<<>>),
                             ImagePar(<<>>),
                             CellPar(<<"Drafted 1st of June 2024">>, 1)
                                 \o CellPar(<<"Review May 2027">>, 2)},
                            MaxBlocks)
                 \cup {<<CellPar(<<"Drafted June 2024 review May 2027">>, 1)>>},
     headers |-> {<<>>},
     args    |-> {Args("Letter.docx", <<[k |-> "<a>", v |-> "X"]>>,
                       "none", 35, dry, today) :
                     dry \in BOOLEAN, today \in {Today, LeapDay}}]

\* text boxes: tokens in the paragraphs of a box and across its boundary,
\* and an unknown token in a box that holds an image
TextboxFamily ==
    [bodies  |-> BlocksUpTo({BoxPar(<<>>) \o InBox(<<"<u>">>) \o InBox(<<"<A>">>),
                             BoxPar(<<>>) \o InBoxImage \o InBox(<<"x">>)
                                 \o InBox(<<"<u>">>),
                             BoxPar(<<>>) \o InBox(<<"<logo>">>),
                             BoxPar(<<"<a">>) \o InBox(<<">">>),
                             Par(<<"<a>">>)}, MaxLogoBlocks),
     headers |-> {<<>>},
     args    |-> {Args("Letter.docx",
                       <<[k |-> "<a>", v |-> "X"], [k |-> "<logo>", v |-> ""]>>,
                       "ok", 30, dry, Today) : dry \in BOOLEAN}]

\* the end-to-end document: the company name in the body, the logo token
\* in the header and a version-control table with a 2024 date
EndToEndFamily ==
    [bodies  |-> {<<Par(<<"<company name>">>),
                    CellPar(<<"Drafted 1st of June 2024">>, 1)
                        \o CellPar(<<"Review May 2027">>, 2)>>,
                  <<Par(<<"Version Control Table">>),
                    CellPar(<<"Drafted 1st of June 2024">>, 1),
                    Par(<<"Prepared for <company name>">>)>>},
     headers |-> {<<HfPar(1, <<"<logo>">>, "header", 0, FALSE)>>,
                  <<HfPar(1, <<"<logo>">>, "header", 1, FALSE),
                    HfPar(2, <<"Page">>, "footer", 0, FALSE)>>},
     args    |-> {Args("Letter.docx", <<[k |-> "<company name>", v |-> "Acme"]>>,
                       "ok", 30, FALSE, today) : today \in {Today, LeapDay}}]

\* known and unknown tokens, in the map's letter case and in another one,
\* in paragraphs with and without an image
TokenFamily ==
    [bodies  |-> BlocksUpTo({Par(<<"<A>">>), ImagePar(<<"<u>">>),
                             CellPar(<<"<u> <a>">>, 1),
                             BoxPar(<<>>) \o InBox(<<"<A>">>)}, MaxLogoBlocks),
     headers |-> {<<>>,
                  <<HfPar(1, <<"<u>">>, "header", 0, FALSE)>>,
                  <<HfPar(1, <<"<u>">>, "header", 0, TRUE)>>,
                  <<HfPar(1, <<"<A>">>, "footer", 0, FALSE)>>,
                  <<HfPar(1, <<"<A>">>, "header", 0, TRUE)>>,
                  <<HfPar(1, <<"<u>">>, "footer", 1, FALSE)>>},
     args    |-> {Args("Letter.docx", <<[k |-> "<a>", v |-> "X"]>>,
                       "none", 35, dry, Today) : dry \in BOOLEAN}]

\* the most calls of process_par_safe_logo_smart that return before one
\* raises
MaxFaultAt == 2

\* the runs in which the function a stage calls raises
Faults ==
    {[stage |-> s, at |-> 0] :
        s \in {"load", "cover", "shapes", "hf", "prune", "hfshapes", "vc",
               "save"}}
    \cup {[stage |-> "body", at |-> n] : n \in 0 .. MaxFaultAt}

\* one stage fails: logo tokens in body, text box and header, a token of
\* the map, and a version-control table
FaultFamily ==
    [bodies  |-> {<<Par(<<"<logo>">>), Par(<<"<a>">>)>>,
                  <<Par(<<"<a>">>), Par(<<"<logo>">>), Par(<<"<u>">>)>>,
                  <<BoxPar(<<>>) \o InBox(<<"<logo>">>), Par(<<"<a>">>)>>,
                  <<Par(<<"<logo>">>),
                    CellPar(<<"Drafted 1st of June 2024">>, 1)>>},
     headers |-> {<<>>, <<HfPar(1, <<"<logo>">>, "header", 0, FALSE)>>},
     args    |-> {[Args(name, <<[k |-> "<a>", v |-> "X"],
                                [k |-> "<logo>", v |-> ""]>>,
                        "ok", 30, FALSE, Today) EXCEPT !.fault = f] :
                     name \in {"Letter.docx", "Staff Handbook.docx"},
                     f \in Faults}]

\* keys written in capitals in the JSON file, so that load_replacements
\* stores each of them twice, with a plain, an empty and a blank value, and
\* table cells in which the scan leaves tokens of the map behind
UpperKeyFamily ==
    [bodies  |-> {<<CellPar(<<"<a><ab>">>, 1)>>,
                  <<CellPar(<<"<a>", "<AB>">>, 1)>>,
                  <<Par(<<"<a><ab>">>), CellPar(<<"<A>">>, 1)>>,
                  <<CellPar(<<"<ab>">>, 1) \o CellPar(<<"<a><ab>">>, 2)>>,
                  <<CellPar(<<"<AB>">>, 1), CellPar(<<"<u> <Ab>">>, 2)>>,
                  <<CellPar(<<"<u><b><bc><ab>">>, 1),
                    CellPar(<<"<a><ab>">>, 2)>>,
                  <<CellPar(<<"<u><a><ab>">>, 1)>>,
                  <<CellPar(<<"<B><bc>">>, 1), Par(<<"x">>)>>},
     headers |-> {<<>>},
     args    |-> {Args("Letter.docx",
                       LoadReplacements(<<[k |-> "<A>", v |-> JsonStr("X")],
                                          [k |-> "<AB>", v |-> JsonStr("")],
                                          [k |-> "<B>", v |-> JsonStr(" ")],
                                          [k |-> "<BC>", v |-> JsonNull]>>),
                       "none", 35, dry, Today) : dry \in BOOLEAN}]

\* values that are templates of re.sub (a backslash escape, a group
\* reference), values with a tab or a line break, which run.text = splits,
\* and a value with a character XML cannot hold
TemplateFamily ==
    [bodies  |-> BlocksUpTo({Par(<<"<a>">>), Par(<<"<a", ">">>),
                             Par(<<"x", "<A> <a>">>),
                             CellPar(<<"<a>">>, 1),
                             BoxPar(<<>>) \o InBox(<<"<a>", "y">>),
                             Par(<<"<company name>'s">>)}, 2),
     headers |-> {<<>>, <<HfPar(1, <<"<a>", "<a>">>, "header", 0, FALSE)>>,
                  <<HfPar(1, <<"<a>">>, "footer", 1, FALSE),
                    HfPar(2, <<"<u>">>, "footer", 0, FALSE)>>},
     args    |-> {Args("Letter.docx",
                       <<[k |-> "<a>", v |-> v],
                         [k |-> "<company name>", v |-> "Jo\\nes"]>>,
                       "none", 35, dry, Today) :
                     v \in {"x\\1", "a\\nb", "x\\\\y", "x\ty", "p\nq", "f\fg"},
                     dry \in BOOLEAN}
                 \cup {Args("Letter.docx",
                            <<[k |-> "<company name>", v |-> "R\\1"],
                              [k |-> "<a>", v |-> "X"]>>,
                            "none", 35, FALSE, Today)}]

Families == <<PruneFamily, LogoFamily, PossessiveFamily, VersionFamily,
              TextboxFamily, EndToEndFamily, TokenFamily, FaultFamily,
              UpperKeyFamily, TemplateFamily>>

\* the tables of the loaded body with the cells of each: doc.tables
DocTables(b) ==
    [t \in {b[j].tbl : j \in {i \in 1 .. Len(b) : b[i].tbl # 0}} |->
        {b[j].cell : j \in {i \in 1 .. Len(b) : b[i].tbl = t /\ b[i].box = 0}}]

\* a document at input_path, the arguments of a run and a report as line
\* 1287 leaves it; the resolver harness stays idle
InitDocument ==
    /\ \E f \in 1 .. Len(Families) :
          /\ \E blocks \in Families[f].bodies : body = MkBody(blocks, 1, <<>>)
          /\ hf \in Families[f].headers
          /\ inp \in Families[f].args
    /\ doc0 = [body |-> body, hf |-> hf]
    /\ tables = DocTables(body)
    /\ report = NewReport
    /\ pr = NoPrune
    /\ saved = FALSE
    /\ texts = <<>>
    /\ orig = <<>>
    /\ rmap = <<>>
    /\ pass = 0
    /\ scan = NoScan
    /\ ret = <<>>
    /\ res1 = NoResult
    /\ res2 = NoResult

\* the state after the report's construction (line 1287), body and hf being
\* the document at input_path
Init ==
    /\ InitDocument
    /\ pc = "load"

----------------------------------------------------------------------------
(* process_docx: one document through the nine stages                      *)

\* line 1401 without the cap
HeaderWidthUncapped(width_mm) == width_mm

\* line 1401: header_width = min(width_mm, 20.0)
HeaderWidth(width_mm) == IF width_mm < HEADER_WIDTH THEN width_mm ELSE HEADER_WIDTH

\* lines 1289-1291: Document(input_path) loads the document
Load ==
    /\ pc = "load"
    /\ ~Raises("load")
    /\ pc' = "cover"
    /\ UNCHANGED <<inp, doc0, body, hf, tables, report, pr, saved, harnessVars>>

\* stage 1, lines 1296-1345
CoverLogo ==
    /\ pc = "cover"
    /\ ~Raises("cover")
    /\ IF IsPolicyManual(inp.name) /\ inp.logo = "ok" /\ ~inp.dry
       THEN /\ body' = AddCoverPageLogoLarge(body, inp.width_mm)
            /\ report' = [report EXCEPT !.changed = TRUE]
       ELSE UNCHANGED <<body, report>>
    /\ pc' = "shapes"
    /\ UNCHANGED <<inp, doc0, hf, tables, pr, saved, harnessVars>>

\* stage 2, lines 1347-1355
ShapeTextboxes ==
    /\ pc = "shapes"
    /\ ~Raises("shapes")
    /\ \E s \in {ProcessShapeTextboxes(body, inp.repl)} :
           /\ body' = s.body
           /\ report' = [report EXCEPT !.changed = @ \/ s.changed]
    /\ pc' = "body"
    /\ UNCHANGED <<inp, doc0, hf, tables, pr, saved, harnessVars>>

\* what stage 3 has for a paragraph it does not call the function on
Skipped(p) ==
    [p |-> p, changed |-> FALSE, logo_inserted |-> FALSE, unresolved |-> {},
     raised |-> FALSE]

\* lines 1366-1383: a call of process_par_safe_logo_smart of stage 3 raises
\* on a value of the map
BodyCallRaises(b, args) ==
    \E i \in 1 .. Len(DocParagraphs(b)) :
        LET j == DocParagraphs(b)[i]
        IN  /\ ~(IsPolicyManual(args.name) /\ i = 1)
            /\ ~ParagraphContainsImage(b, j)
            /\ ProcessParSafeLogoSmart(b[j], args.repl, args.logo,
                                       args.width_mm, args.dry).raised

\* stage 3, lines 1357-1396: the paragraphs of doc.paragraphs but the first
\* one of a policy manual and those that hold an image; when a call of
\* process_par_safe_logo_smart raises, the loop ends there, with what the
\* call did to its paragraph, and the handler of line 1395 runs
BodyParagraphs ==
    /\ pc = "body"
    /\ LET dp == DocParagraphs(body)
           is_policy == IsPolicyManual(inp.name)
           Called(i) == /\ ~(is_policy /\ i = 1)
                        /\ ~ParagraphContainsImage(body, dp[i])
           Calls(i) == Cardinality({k \in 1 .. i : Called(k)})
           injected == Raises("body") /\ Calls(Len(dp)) > inp.fault.at
           Entered(i) == Called(i) /\ (injected => Calls(i) <= inp.fault.at)
       IN  \E rs \in {[i \in 1 .. Len(dp) |->
                    IF Entered(i)
                    THEN ProcessParSafeLogoSmart(body[dp[i]], inp.repl, inp.logo,
                                                 inp.width_mm, inp.dry)
                    ELSE Skipped(body[dp[i]])]} :
           LET Reached(i) == \A k \in 1 .. i - 1 : ~rs[k].raised
               raised == injected \/ \E i \in 1 .. Len(rs) : rs[i].raised
               done == [i \in 1 .. Len(dp) |->
                          IF Reached(i) THEN rs[i] ELSE Skipped(body[dp[i]])]
           IN
           /\ pc' = IF raised THEN ExceptHandler("body") ELSE "hf"
           /\ body' = [j \in 1 .. Len(body) |->
                          IF \E i \in 1 .. Len(dp) : dp[i] = j
                          THEN done[CHOOSE i \in 1 .. Len(dp) : dp[i] = j].p
                          ELSE body[j]]
           /\ report' = [report EXCEPT
                 !.changed = @ \/ \E i \in 1 .. Len(done) : done[i].changed,
                 !.logos_inserted_body =
                     @ + Cardinality({i \in 1 .. Len(done) :
                                         done[i].logo_inserted}),
                 !.placeholders_missing =
                     @ \cup UNION {done[i].unresolved : i \in 1 .. Len(done)}]
    /\ UNCHANGED <<inp, doc0, hf, tables, pr, saved, harnessVars>>

\* lines 1156, 1165 and 1189: section.header and section.footer are objects
\* that are always true, and reading the paragraphs of one for which the
\* document has no definition makes python-docx add the part, which holds
\* one empty paragraph.  h is the header part's paragraphs followed by the
\* footer part's.
GetOrAddDefinitions(h) ==
    (IF \E j \in 1 .. Len(h) : h[j].part = "header" THEN <<>>
     ELSE <<HfPar(HEADER_PARAGRAPH, <<>>, "header", 0, FALSE)>>)
    \o h
    \o (IF \E j \in 1 .. Len(h) : h[j].part = "footer" THEN <<>>
        ELSE <<HfPar(FOOTER_PARAGRAPH, <<>>, "footer", 0, FALSE)>>)

\* stage 4, lines 1398-1410: every paragraph of the header and the footer,
\* those of their tables included, at the capped width; a header or footer
\* the document does not define is added on the way, in a dry run too
HeadersFooters ==
    /\ pc = "hf"
    /\ ~Raises("hf")
    /\ \E h \in {GetOrAddDefinitions(hf)} :
       \E rs \in {[j \in 1 .. Len(h) |->
                    ProcessHeaderParagraph(h[j], inp.repl, inp.logo,
                                           HeaderWidth(inp.width_mm), inp.dry)]} :
           /\ hf' = [j \in 1 .. Len(h) |-> rs[j].p]
           /\ report' = [report EXCEPT
                 !.changed = @ \/ \E j \in 1 .. Len(rs) : rs[j].changed,
                 !.logos_inserted_headers = SumInserted(rs)]
    /\ pc' = "prune"
    /\ UNCHANGED <<inp, doc0, body, tables, pr, saved, harnessVars>>

\* stage 5, lines 1026-1035: the snapshot of the body's w:p elements and
\* of where the images are
PruneBegin ==
    /\ pc = "prune"
    /\ ~Raises("prune")
    /\ pr' = [NoPrune EXCEPT
                !.paragraphs = [j \in 1 .. Len(body) |-> body[j].id],
                !.has_img_here =
                    [j \in 1 .. Len(body) |->
                        HasImageAnywhereIn(body, j) \/ ParagraphContainsImage(body, j)]]
    /\ pc' = "pruning"
    /\ UNCHANGED <<inp, doc0, body, hf, tables, report, saved, harnessVars>>

\* lines 1038-1064: what _cross_run_replace_xml makes of paragraphs[idx],
\* when the turn calls it
PruneRescue(b, p, repl) ==
    LET pos    == PosOf(b, p.paragraphs[p.idx + 1])
        nodes  == NodesOf(b, Owners(b, pos))
        joined == Join(nodes)
        keep   == \/ Contains(Lower(joined), PLACEHOLDER_LOGO)
                  \/ ParagraphContainsImage(b, pos)
    IN  IF ~keep \/ HasCh(joined, "<")
        THEN CrossRunReplace(nodes, repl)
        ELSE [NoResult EXCEPT !.texts = nodes]

\* stage 5, lines 1037-1111: one turn of the loop, for paragraphs[idx].
\* When _cross_run_replace_xml raises, the function ends there with what it
\* wrote, its counts are lost and the handler of line 1420 runs; the
\* tokens it added to the report's set stay.
PruneStep ==
    /\ pc = "pruning"
    /\ pr.idx < Len(pr.paragraphs)
    /\ LET pos    == PosOf(body, pr.paragraphs[pr.idx + 1])
           owners == Owners(body, pos)
           nodes  == NodesOf(body, owners)
           joined == Join(nodes)
           keep   == \/ Contains(Lower(joined), PLACEHOLDER_LOGO)
                     \/ ParagraphContainsImage(body, pos)
       IN  \E r \in {PruneRescue(body, pr, inp.repl)} :
           LET b1     == PutNodes(body, owners, r.texts)
               tokens_in_par == DiscoverPlaceholders(Lower(Join(r.texts)))
               remove == /\ ~keep
                         /\ tokens_in_par # {}
                         /\ ~NeighbourImage(pr.has_img_here, pr.idx)
                         /\ ~AncestorWithImages(b1, pos)
                         /\ ~(HasImageAnywhereIn(b1, pos) \/ ParagraphContainsImage(b1, pos))
                         /\ AllBlank(tokens_in_par, inp.repl)
           IN
           /\ body' = IF remove /\ ~r.raised THEN RemoveAt(b1, pos) ELSE b1
           /\ pr' = IF r.raised THEN pr
                    ELSE [pr EXCEPT
                            !.idx = @ + 1,
                            !.changed_count = @ + (IF r.changed THEN 1 ELSE 0),
                            !.logo_hits = @ + (IF r.logo THEN 1 ELSE 0),
                            !.pruned_count = @ + (IF remove THEN 1 ELSE 0)]
           /\ report' = [report EXCEPT
                 !.placeholders_missing = @ \cup r.unresolved]
           /\ pc' = IF r.raised THEN ExceptHandler("prune") ELSE pc
    /\ UNCHANGED <<inp, doc0, hf, tables, saved, harnessVars>>

\* stage 5, lines 1414-1419: the counts into the report
PruneEnd ==
    /\ pc = "pruning"
    /\ pr.idx = Len(pr.paragraphs)
    /\ report' = [report EXCEPT
          !.xml_paras_changed = pr.changed_count,
          !.xml_logo_hits = pr.logo_hits,
          !.xml_paras_pruned = pr.pruned_count,
          !.changed = @ \/ pr.changed_count > 0 \/ pr.logo_hits > 0
                        \/ pr.pruned_count > 0]
    /\ pc' = "hfshapes"
    /\ UNCHANGED <<inp, doc0, body, hf, tables, pr, saved, harnessVars>>

\* lines 1123-1131: a paragraph of a header or footer that stage 6 visits
HfVisited(h, j) == HasCh(Join(h[j].frags), "<") /\ ~HasImageAnywhereIn(h, j)

\* line 1131: a call of _cross_run_replace_xml of stage 6 raises
HfShapesRaises(h, repl) ==
    \E j \in 1 .. Len(h) :
        HfVisited(h, j) /\ CrossRunReplace(h[j].frags, repl).raised

\* stage 6, lines 1423-1431 and rescue_header_footer_shapes: the w:p
\* elements of the header part, then of the footer part, that hold a < and
\* no image.  When _cross_run_replace_xml raises, the function ends there
\* with what it wrote, its counts are lost and the handler of line 1430
\* runs; the tokens it added to the report's set stay.
HeaderFooterShapes ==
    /\ pc = "hfshapes"
    /\ ~Raises("hfshapes")
    /\ \E rs \in {[j \in 1 .. Len(hf) |->
                    IF HfVisited(hf, j) THEN CrossRunReplace(hf[j].frags, inp.repl)
                    ELSE [NoResult EXCEPT !.texts = hf[j].frags]]} :
           LET Reached(j) == \A k \in 1 .. j - 1 : ~rs[k].raised
               raised == \E j \in 1 .. Len(rs) : rs[j].raised
               done == [j \in 1 .. Len(hf) |->
                          IF Reached(j) THEN rs[j]
                          ELSE [NoResult EXCEPT !.texts = hf[j].frags]]
               hx_changed == Cardinality({j \in 1 .. Len(done) : done[j].changed})
               hx_logo == Cardinality({j \in 1 .. Len(done) : done[j].logo})
           IN
           /\ hf' = [j \in 1 .. Len(hf) |-> [hf[j] EXCEPT !.frags = done[j].texts]]
           /\ report' =
                 IF raised
                 THEN [report EXCEPT
                         !.placeholders_missing =
                             @ \cup UNION {done[j].unresolved : j \in 1 .. Len(done)}]
                 ELSE [report EXCEPT
                         !.placeholders_missing =
                             @ \cup UNION {done[j].unresolved : j \in 1 .. Len(done)},
                         !.xml_paras_changed = @ + hx_changed,
                         !.xml_logo_hits = @ + hx_logo,
                         !.changed = @ \/ hx_changed > 0 \/ hx_logo > 0]
           /\ pc' = IF raised THEN ExceptHandler("hfshapes") ELSE "vc"
    /\ UNCHANGED <<inp, doc0, body, tables, pr, saved, harnessVars>>

\* stage 7, lines 1433-1446
VersionControl ==
    /\ pc = "vc"
    /\ ~Raises("vc")
    /\ IF ~inp.dry
       THEN \E v \in {ProcessVersionControlTable(body, tables, inp.today)} :
                /\ body' = v.body
                /\ report' = IF v.processed
                             THEN [report EXCEPT
                                     !.version_control_processed = 1,
                                     !.changed = TRUE]
                             ELSE report
       ELSE UNCHANGED <<body, report>>
    /\ pc' = "fallback"
    /\ UNCHANGED <<inp, doc0, hf, tables, pr, saved, harnessVars>>

\* stage 8, lines 1448-1461: the first paragraph of doc.paragraphs, or a new
\* last one, is right-aligned and takes the logo at width_mm
FallbackLogo ==
    /\ pc = "fallback"
    /\ IF /\ report.xml_logo_hits > 0
          /\ report.logos_inserted_body + report.logos_inserted_headers = 0
          /\ inp.logo # "none"
          /\ ~inp.dry
       THEN LET dp == DocParagraphs(body)
                b1 == IF dp # <<>> THEN body
                      ELSE Append(body,
                             [id |-> FALLBACK_PARAGRAPH, frags |-> <<>>,
                              gaps |-> <<"">>, imgs |-> <<>>,
                              tbl |-> 0, cell |-> 0, box |-> 0,
                              align |-> ALIGN_NONE, part |-> "body"])
                first_p == IF dp # <<>> THEN dp[1] ELSE Len(b1)
            IN  /\ body' = [b1 EXCEPT
                      ![first_p].align = ALIGN_RIGHT,
                      ![first_p].imgs =
                          IF inp.logo = "ok"
                          THEN Append(@, [w |-> inp.width_mm, by |-> "fallback"])
                          ELSE @]
                /\ report' = IF inp.logo = "ok"
                             THEN [report EXCEPT
                                     !.logos_inserted_body = @ + 1,
                                     !.changed = TRUE]
                             ELSE report
       ELSE UNCHANGED <<body, report>>
    /\ pc' = "save"
    /\ UNCHANGED <<inp, doc0, hf, tables, pr, saved, harnessVars>>

\* stage 9, lines 1463-1478
Save ==
    /\ pc = "save"
    /\ ~(Raises("save") /\ ~inp.dry)
    /\ saved' = ~inp.dry
    /\ pc' = "done"
    /\ UNCHANGED <<inp, doc0, body, hf, tables, report, pr, harnessVars>>

\* the function called by stage 1, 2, 4, 5, 6 or 7 raises on entry: the
\* assignments to the report that follow the call are skipped, the stage's
\* handler runs.  When the document does not load, or is not saved (a dry
\* run saves nothing), process_docx returns the report as it is.
StageRaises ==
    /\ pc \in {"load", "cover", "shapes", "hf", "prune", "hfshapes", "vc", "save"}
    /\ Raises(pc)
    /\ pc = "save" => ~inp.dry
    /\ pc' = ExceptHandler(pc)
    /\ UNCHANGED <<inp, doc0, body, hf, tables, report, pr, saved, harnessVars>>

Next ==
    \/ StageRaises
    \/ Load
    \/ CoverLogo
    \/ ShapeTextboxes
    \/ BodyParagraphs
    \/ HeadersFooters
    \/ PruneBegin
    \/ PruneStep
    \/ PruneEnd
    \/ HeaderFooterShapes
    \/ VersionControl
    \/ FallbackLogo
    \/ Save

Spec == Init /\ [][Next]_vars

----------------------------------------------------------------------------
(* Functions of the module that process_docx never reaches, called alone   *)

\* the loop over repl.items() of lines 840-844, from entry i of the map on:
\* a plain, case-sensitive str.replace for every key found in the text, the
\* logo key included
RECURSIVE TextboxSubs(_, _, _, _)
TextboxSubs(text, changed, repl, i) ==
    IF i > Len(repl) THEN [text |-> text, changed |-> changed]
    ELSE LET placeholder == repl[i].k
         IN  IF Contains(text, placeholder)
             THEN TextboxSubs(StrReplace(text, placeholder, repl[i].v), TRUE,
                              repl, i + 1)
             ELSE TextboxSubs(text, changed, repl, i + 1)

\* lines 831-852 for one w:t node: the text it is given, whether the
\* assignment of line 852 is refused, and whether that assignment or the
\* re.sub of handle_smart_possessive raises
TextNodeUpdate(original_text, repl) ==
    IF HasCh(original_text, "<")
    THEN LET s == TextboxSubs(original_text, FALSE, repl, 1)
             After(h) == [text |-> h.text,
                          changed |-> s.changed \/ h.changed,
                          refused |-> ~h.raised /\ ~XmlLegal(h.text),
                          raised |-> h.raised \/ ~XmlLegal(h.text)]
         IN  After(HandleSmartPossessive(s.text, repl))
    ELSE [text |-> original_text, changed |-> FALSE, refused |-> FALSE,
          raised |-> FALSE]

\* process_textbox_content_enhanced on the text box of the paragraph at
\* pos: the w:t nodes of the paragraphs nested in the box, in document
\* order.  When a node raises, the nodes before it keep their new text, the
\* nodes after it their old one, and the handler of line 856 returns False;
\* the node itself keeps its text when handle_smart_possessive raised, and
\* is left empty when its assignment was refused, which removes the node's
\* text before it raises.
ProcessTextboxContentEnhanced(b, pos, repl) ==
    LET owners == NestedFrom(b, b[pos].id, 1)
        nodes  == NodesOf(b, owners)
        Write(us) ==
            LET Reached(k) == \A j \in 1 .. k : ~us[j].raised
            IN  [body |-> PutNodes(b, owners,
                             [k \in 1 .. Len(nodes) |->
                                 IF Reached(k) THEN us[k].text
                                 ELSE IF Reached(k - 1) /\ us[k].refused
                                      THEN ""
                                 ELSE nodes[k]]),
                 changed |-> /\ Reached(Len(nodes))
                             /\ \E k \in 1 .. Len(nodes) : us[k].changed]
    IN  Write([k \in 1 .. Len(nodes) |-> TextNodeUpdate(nodes[k], repl)])

\* insert_page_break_before_element for the w:p at pos (0: an element that
\* has no parent, for which line 396 returns False): a new paragraph whose
\* one run holds a w:br of type page goes in front of the element, under the
\* same parent
InsertPageBreakBeforeElement(b, pos) ==
    IF pos = 0 THEN [body |-> b, inserted |-> FALSE]
    ELSE [body |-> SubSeq(b, 1, pos - 1)
                   \o <<[id |-> PAGE_BREAK_PARAGRAPH, frags |-> <<>>,
                         gaps |-> <<"\n">>, imgs |-> <<>>,
                         tbl |-> b[pos].tbl, cell |-> b[pos].cell,
                         box |-> b[pos].box, align |-> ALIGN_NONE,
                         part |-> b[pos].part]>>
                   \o SubSeq(b, pos, Len(b)),
          inserted |-> TRUE]

\* a document and a map in the caller's hands, before the call
InitCalls ==
    /\ InitDocument
    /\ pc = "call"

\* process_textbox_content_enhanced(textbox, repl, id, namespaces), textbox
\* being the text box of a paragraph of the body
CallProcessTextboxContent ==
    /\ pc = "call"
    /\ \E pos \in {j \in 1 .. Len(body) : BoxOf(body, j) # {}} :
       \E r \in {ProcessTextboxContentEnhanced(body, pos, inp.repl)} :
           /\ body' = r.body
           /\ ret' = <<r.changed>>
    /\ pc' = "done"
    /\ UNCHANGED <<texts, orig, rmap, pass, res1, res2, scan,
                   inp, doc0, hf, tables, report, pr, saved>>

\* insert_page_break_before_element(element, doc), element being a w:p of
\* the body or an element without a parent
CallInsertPageBreak ==
    /\ pc = "call"
    /\ \E pos \in 0 .. Len(body) :
       \E r \in {InsertPageBreakBeforeElement(body, pos)} :
           /\ body' = r.body
           /\ ret' = <<r.inserted>>
    /\ pc' = "done"
    /\ UNCHANGED <<texts, orig, rmap, pass, res1, res2, scan,
                   inp, doc0, hf, tables, report, pr, saved>>

\* process_par_safe_logo_smart(paragraph, repl, logo, width_mm, dry),
\* paragraph being a w:p of the body, one that holds a drawing included:
\* the paragraphs of a text box go with the drawing that held the box.  The
\* function has no handler of its own, so a raise reaches the caller.
CallProcessParSafeLogoSmart ==
    /\ pc = "call"
    /\ \E pos \in 1 .. Len(body) :
       \E r \in {ProcessParSafeLogoSmart(body[pos], inp.repl, inp.logo,
                                         inp.width_mm, inp.dry)} :
           LET Stays(x) ==
                   \/ x.box # r.p.id
                   \/ \E i \in 1 .. Len(r.p.imgs) : r.p.imgs[i].by = "shape"
           IN  /\ body' = SelectSeq([body EXCEPT ![pos] = r.p], Stays)
               /\ ret' = <<[changed |-> r.changed,
                            logo_inserted |-> r.logo_inserted,
                            unresolved |-> r.unresolved,
                            raised |-> r.raised]>>
    /\ pc' = "done"
    /\ UNCHANGED <<texts, orig, rmap, pass, res1, res2, scan,
                   inp, doc0, hf, tables, report, pr, saved>>

\* iter_header_footer_paragraphs(doc), one next() of the generator; ret
\* holds the ids of the paragraphs yielded so far.  Of each part the
\* paragraphs outside tables come first, then those of the table cells.
\* Reading hdr.paragraphs adds a header the document does not define, and
\* the footer is read, and added, only when the header has been yielded
\* whole; the next() after the last paragraph ends the iteration.
NextHeaderFooterParagraph ==
    /\ pc \in {"call", "iterating"}
    /\ LET Outside(x) == x.tbl = 0
           InTable(x) == x.tbl # 0
           IsHeader(x) == x.part = "header"
           IsFooter(x) == x.part = "footer"
           Ids(ps) == [i \in 1 .. Len(ps) |-> ps[i].id]
           Yields(ps) ==
               Ids(SelectSeq(ps, Outside)) \o Ids(SelectSeq(ps, InTable))
           h2 == GetOrAddDefinitions(hf)
           h1 == IF \E j \in 1 .. Len(hf) : hf[j].part = "footer" THEN h2
                 ELSE SubSeq(h2, 1, Len(h2) - 1)
           hs == Yields(SelectSeq(h1, IsHeader))
           fs == Yields(SelectSeq(h2, IsFooter))
           n  == Len(ret)
       IN  IF n < Len(hs)
           THEN /\ hf' = h1
                /\ ret' = Append(ret, hs[n + 1])
                /\ pc' = "iterating"
           ELSE IF n < Len(hs) + Len(fs)
           THEN /\ hf' = h2
                /\ ret' = Append(ret, fs[n - Len(hs) + 1])
                /\ pc' = "iterating"
           ELSE /\ pc' = "done"
                /\ UNCHANGED <<hf, ret>>
    /\ UNCHANGED <<texts, orig, rmap, pass, res1, res2, scan,
                   inp, doc0, body, tables, report, pr, saved>>

NextCalls ==
    \/ CallProcessTextboxContent
    \/ CallInsertPageBreak
    \/ CallProcessParSafeLogoSmart
    \/ NextHeaderFooterParagraph

SpecCalls == InitCalls /\ [][NextCalls]_vars

----------------------------------------------------------------------------
(* Claims about the cross-fragment resolver                                *)

\* the map has an entry for tok, under the lookup of line 933
HasEntry(repl, tok) == HasKey(repl, tok) \/ HasKey(repl, Lower(tok))

\* the value still contains <...> syntax
HasTokenSyntax(v) == DiscoverPlaceholders(v) # {}

\* number of non-overlapping occurrences of token t in s, in any letter case
RECURSIVE Occurrences(_, _)
Occurrences(s, t) ==
    IF Len(s) < Len(t) THEN 0
    ELSE IF MatchCIAt(s, 0, t) THEN 1 + Occurrences(From(s, Len(t)), t)
    ELSE Occurrences(From(s, 1), t)

\* number of substitutions of token t the scan made
HitsOf(hits, t) ==
    Cardinality({i \in 1 .. Len(hits) : Lower(hits[i]) = Lower(t)})

\* some key of the map occurs in s, in any letter case
KnownTokenIn(s, repl) ==
    \E i \in 1 .. Len(Tokens(repl)) : ContainsCI(s, Tokens(repl)[i])

\* C1 (as claimed): however the container's text is cut into fragments, the
\* text after the pass equals the text the pass leaves when the same text is
\* held in one fragment, and every occurrence of every token of the map that
\* the possessive rule left for the scan is substituted exactly once.
C1_SplitInvariance ==
    (pass = 1 /\ ~res1.raised) =>
        LET whole == CrossRunReplace(<<Join(orig)>>, rmap)
            start == Join(AfterPossessive(orig, rmap).texts)
        IN  /\ ~whole.raised
            /\ Join(texts) = Join(whole.texts)
            /\ \A i \in 1 .. Len(Tokens(rmap)) :
                  HitsOf(res1.hits, Tokens(rmap)[i])
                      = Occurrences(start, Tokens(rmap)[i])

\* C2 (as claimed): every token the pass reports as unresolved has no entry
\* in the map, or an entry whose value itself contains <...> syntax.
C2_UnresolvedHaveNoEntry ==
    (pass = 1 /\ ~res1.raised) =>
        \A tok \in res1.unresolved :
            \/ ~HasEntry(rmap, tok)
            \/ HasTokenSyntax(Get2(rmap, tok, ""))

\* what C3 promises of a second pass
SecondPassIdle ==
    /\ ~res2.raised
    /\ res2.changed = FALSE
    /\ res2.texts = res1.texts
    /\ res2.unresolved \subseteq res1.unresolved

\* C3 (as claimed): when the first pass returned and left no known token,
\* the second pass returns changed = false, leaves every fragment as it is
\* and reports no token the first pass did not report.
C3_IdempotentAsClaimed ==
    (pass = 2 /\ ~res1.raised /\ ~KnownTokenIn(Join(res1.texts), rmap))
        => SecondPassIdle

\* C3 (amended): when the first pass returned and left no known token and no
\* company-name possessive that the possessive rule rewrites or raises on,
\* the second pass returns changed = false, leaves every fragment as it is and reports no token the
\* first pass did not report.
C3_Idempotent ==
    (/\ pass = 2
     /\ ~res1.raised
     /\ ~KnownTokenIn(Join(res1.texts), rmap)
     /\ ~HandleSmartPossessive(Join(res1.texts), rmap).changed
     /\ ~HandleSmartPossessive(Join(res1.texts), rmap).raised)
        => SecondPassIdle

\* C3 witness: a container cut into several fragments whose first pass
\* substituted a token and left an unknown one, resolved a second time
C3_Witness ==
    /\ pass = 2
    /\ Len(orig) >= 2
    /\ res1.changed
    /\ res1.hits # <<>>
    /\ res1.unresolved # {}
    /\ ~res1.raised
    /\ ~KnownTokenIn(Join(res1.texts), rmap)
    /\ ~HandleSmartPossessive(Join(res1.texts), rmap).changed
----------------------------------------------------------------------------
(* Claims about process_docx                                               *)

\* value' when the value ends in s, value's otherwise
PossessiveOf(v) == IF EndsWith(v, "s") THEN v \o "'" ELSE v \o "'s"

\* every paragraph of the loaded story that holds <company name>'s reads,
\* in the processed story, as its text with the possessive form in place
PossessiveHolds(story0, story) ==
    \A j \in 1 .. Len(story0) :
        LET t0 == ParText(story0[j])
            v  == Get(inp.repl, "<company name>", "")
        IN  (ContainsCI(t0, "<company name>'s") /\ v # "") =>
                \E k \in 1 .. Len(story) :
                    /\ story[k].id = story0[j].id
                    /\ ParText(story[k]) =
                           SubCI("<company name>'s",
                                 <<[group |-> FALSE,
                                    literal |-> PossessiveOf(v)]>>, t0)

\* process_docx has returned from a run in which no call was made to fail
Returned == pc = "done" /\ inp.fault = NoFault

\* C4: when a token with a non-empty value is immediately followed by 's,
\* the processed document reads value' if the value ends in s and value's
\* otherwise (Smith's, Jones', never Jones's), in the body and in the
\* headers and footers.
C4_SmartPossessive ==
    Returned =>
        PossessiveHolds(doc0.body, body) /\ PossessiveHolds(doc0.hf, hf)

\* a table or text box that holds the paragraph at pos holds an image
ContainerHoldsImage(b, pos) ==
    \E j \in 1 .. Len(b) :
        /\ b[j].imgs # <<>>
        /\ \/ b[pos].tbl # 0 /\ b[j].tbl = b[pos].tbl
           \/ b[pos].box # 0 /\ b[j].box = b[pos].box

\* C5: at the moment the pruning pass removes a paragraph, neither that
\* paragraph, nor the paragraph before it or after it in the live document,
\* nor a table or text box around it holds an image.
C5_PruneSafety ==
    [][ (pc = "pruning" /\ Len(body') < Len(body)) =>
            LET pos == PosOf(body, pr.paragraphs[pr.idx + 1])
            IN  /\ ~HasDrawing(body, pos)
                /\ pos > 1 => ~HasDrawing(body, pos - 1)
                /\ pos < Len(body) => ~HasDrawing(body, pos + 1)
                /\ ~ContainerHoldsImage(body, pos) ]_vars

\* paragraph j of the loaded body holds only <region>, which the map sends
\* to the empty string, and lies away from every image
PlainRegionParagraph(j) ==
    LET b0 == doc0.body
    IN  /\ b0[j].frags = <<"<region>">>
        /\ HasKey(inp.repl, "<region>")
        /\ Get(inp.repl, "<region>", "") = ""
        /\ b0[j].imgs = <<>> /\ b0[j].tbl = 0 /\ b0[j].box = 0
        /\ j > 1 => ~HasDrawing(b0, j - 1)
        /\ j < Len(b0) => ~HasDrawing(b0, j + 1)

\* C6: a body paragraph that holds only <region>, mapped to the empty
\* string, away from images, is deleted by process_docx and counted in
\* xml_paras_pruned.
C6_BlankRegionPruned ==
    Returned =>
        \A j \in 1 .. Len(doc0.body) :
            PlainRegionParagraph(j) =>
                /\ ~\E k \in 1 .. Len(body) : body[k].id = doc0.body[j].id
                /\ report.xml_paras_pruned >= 1

\* C7: after process_docx, dry or not and whatever the map, no body,
\* table-cell, header or footer paragraph has the logo token left in its
\* text, in any letter case, whole or split over fragments.
C7_LogoTokenGone ==
    Returned =>
        \A j \in 1 .. Len(body \o hf) :
            ~Contains(Lower(ParText((body \o hf)[j])), PLACEHOLDER_LOGO)

\* C8: in a dry run no image is inserted anywhere, the three counters stay
\* 0, nothing is saved, and what the version-control update would do is not
\* done: no blank paragraph of the body is removed and no table-cell
\* paragraph without a token is rewritten.
C8_DryRunInsertsNothing ==
    inp.dry =>
        /\ \A j \in 1 .. Len(body \o hf) :
              \A i \in 1 .. Len((body \o hf)[j].imgs) :
                  (body \o hf)[j].imgs[i].by \in {"orig", "shape"}
        /\ report.logos_inserted_body = 0
        /\ report.logos_inserted_headers = 0
        /\ report.version_control_processed = 0
        /\ ~saved
        /\ \A j \in 1 .. Len(doc0.body) :
              LET p0 == doc0.body[j]
              IN  /\ (IsBlank(p0) /\ p0.tbl = 0 /\ p0.box = 0) =>
                         \E k \in 1 .. Len(body) : body[k].id = p0.id
                  /\ (p0.tbl # 0 /\ ~HasCh(ParText(p0), "<")) =>
                         \E k \in 1 .. Len(body) : body[k] = p0

\* a dry run with a logo file has finished on a document with a logo token
C8_Witness ==
    /\ pc = "done"
    /\ inp.dry
    /\ inp.logo = "ok"
    /\ \E j \in 1 .. Len(doc0.body \o doc0.hf) :
          Contains(Lower(ParText((doc0.body \o doc0.hf)[j])), PLACEHOLDER_LOGO)

\* C9: in a dry run no paragraph is removed from the document in memory
\* and xml_paras_pruned is 0.
C9_DryRunPrunesNothing ==
    inp.dry =>
        /\ \A j \in 1 .. Len(doc0.body) :
              \E k \in 1 .. Len(body) : body[k].id = doc0.body[j].id
        /\ report.xml_paras_pruned = 0

\* a logo put into a header table cell for a token hit, next to one put
\* into a plain body paragraph for a token hit
HeaderCellAndBodyLogo(h, i, q, k) ==
    /\ hf[h].part = "header" /\ hf[h].tbl # 0
    /\ hf[h].imgs[i].by = "header"
    /\ body[q].tbl = 0 /\ body[q].box = 0
    /\ body[q].imgs[k].by = "body"

\* C10: whatever the caller's base width, the logo inserted for a token hit
\* in a header table cell is strictly narrower than the logo inserted for a
\* token hit in a plain body paragraph.
C10_HeaderCellNarrower ==
    \A h \in 1 .. Len(hf), q \in 1 .. Len(body) :
        \A i \in 1 .. Len(hf[h].imgs), k \in 1 .. Len(body[q].imgs) :
            HeaderCellAndBodyLogo(h, i, q, k) =>
                hf[h].imgs[i].w < body[q].imgs[k].w

\* both logos are in place, for a base width above the body default
C10_Witness ==
    /\ inp.width_mm > DEFAULT_WIDTH
    /\ \E h \in 1 .. Len(hf), q \in 1 .. Len(body) :
          \E i \in 1 .. Len(hf[h].imgs), k \in 1 .. Len(body[q].imgs) :
              HeaderCellAndBodyLogo(h, i, q, k)

\* the alignment the header or footer paragraph p was loaded with; a
\* paragraph of a part the pass added was made without one
LoadedAlign(p) ==
    IF \E g \in 1 .. Len(doc0.hf) : doc0.hf[g].id = p.id
    THEN doc0.hf[CHOOSE g \in 1 .. Len(doc0.hf) : doc0.hf[g].id = p.id].align
    ELSE ALIGN_NONE

\* C11: every logo the header/footer pass inserts is min(width_mm, 20) mm
\* wide, so never wider than 20 mm, and the alignment of every header and
\* footer paragraph stays what it was when the document was loaded.
C11_HeaderLogoCapped ==
    \A h \in 1 .. Len(hf) :
        /\ hf[h].align = LoadedAlign(hf[h])
        /\ \A i \in 1 .. Len(hf[h].imgs) :
              hf[h].imgs[i].by = "header" =>
                  /\ hf[h].imgs[i].w <= 20
                  /\ hf[h].imgs[i].w =
                         IF inp.width_mm < 20 THEN inp.width_mm ELSE 20

\* the pass has inserted a logo for a caller width above the cap
C11_Witness ==
    /\ inp.width_mm > 20
    /\ \E h \in 1 .. Len(hf) :
          \E i \in 1 .. Len(hf[h].imgs) : hf[h].imgs[i].by = "header"

\* C12: a logo inserted for a token hit into a plain body paragraph (not in
\* a table cell) is exactly width_mm wide, the width the caller passed.
C12_BodyLogoCallerWidth ==
    \A q \in 1 .. Len(body) :
        \A k \in 1 .. Len(body[q].imgs) :
            (body[q].imgs[k].by = "body" /\ body[q].tbl = 0) =>
                body[q].imgs[k].w = inp.width_mm

\* paragraph p, as loaded, holds the logo token whole in one of its runs
\* and holds no image and no text box
HoldsLogoToken(p) ==
    /\ p.imgs = <<>> /\ p.box = 0
    /\ \E i \in 1 .. Len(p.frags) :
          Contains(Lower(p.frags[i]), PLACEHOLDER_LOGO)

\* the processed story holds the paragraph with this id, with an image that
\* process_docx inserted into it
LogoInsertedInto(story, id) ==
    \E k \in 1 .. Len(story) :
        /\ story[k].id = id
        /\ \E i \in 1 .. Len(story[k].imgs) :
              story[k].imgs[i].by \notin {"orig", "shape"}

\* C13: in a non-dry run with an existing logo file (the document not being
\* a policy manual), every top-level body paragraph, body table-cell
\* paragraph, header paragraph and footer paragraph in which the logo token
\* is found has the logo inserted into that same paragraph, and the report
\* counts an insertion.
C13_LogoInSameParagraph ==
    (Returned /\ ~inp.dry /\ inp.logo = "ok" /\ ~IsPolicyManual(inp.name)) =>
        /\ \A j \in 1 .. Len(doc0.body) :
              HoldsLogoToken(doc0.body[j]) =>
                  /\ LogoInsertedInto(body, doc0.body[j].id)
                  /\ report.logos_inserted_body >= 1
        /\ \A h \in 1 .. Len(doc0.hf) :
              HoldsLogoToken(doc0.hf[h]) =>
                  /\ LogoInsertedInto(hf, doc0.hf[h].id)
                  /\ report.logos_inserted_headers >= 1

\* the images of the story that process_docx inserted for the given reasons
InsertedBy(story, reasons) ==
    {<<j, i>> \in (1 .. Len(story)) \X (1 .. 2) :
        i <= Len(story[j].imgs) /\ story[j].imgs[i].by \in reasons}

\* C14: at the end of a non-dry run with an existing logo file, a document
\* that held the logo token anywhere (a text box or a table cell included)
\* has logos_inserted_body + logos_inserted_headers >= 1; and when the body
\* and header/footer passes placed no image, exactly one image was put into
\* the first paragraph of the body, which is right-aligned.
C14_FallbackGuarantee ==
    ( /\ Returned /\ ~inp.dry /\ inp.logo = "ok"
      /\ \E j \in 1 .. Len(doc0.body \o doc0.hf) :
            \E i \in 1 .. Len((doc0.body \o doc0.hf)[j].frags) :
                Contains(Lower((doc0.body \o doc0.hf)[j].frags[i]),
                         PLACEHOLDER_LOGO) )
    =>
        /\ report.logos_inserted_body + report.logos_inserted_headers >= 1
        /\ (InsertedBy(body \o hf, {"body", "header"}) = {}) =>
              /\ Cardinality(InsertedBy(body, {"fallback"})) = 1
              /\ \E j \in 1 .. Len(body) :
                    /\ DocParagraphs(body)[1] = j
                    /\ body[j].align = ALIGN_RIGHT
                    /\ <<j, Len(body[j].imgs)>> \in InsertedBy(body, {"fallback"})

\* the document and the arguments of the end-to-end example: <company name>
\* in a body paragraph, <logo> in a header paragraph, a version-control
\* table with a 2024 date, the map {"<company name>": "Acme"}, an existing
\* logo file, width 30 mm, not a dry run
EndToEndExample ==
    /\ inp.repl = <<[k |-> "<company name>", v |-> "Acme"]>>
    /\ inp.logo = "ok" /\ inp.width_mm = 30 /\ ~inp.dry
    /\ \E j \in 1 .. Len(doc0.body) :
          /\ doc0.body[j].tbl = 0
          /\ Contains(ParText(doc0.body[j]), "<company name>")
    /\ \E h \in 1 .. Len(doc0.hf) :
          /\ doc0.hf[h].part = "header"
          /\ Contains(ParText(doc0.hf[h]), PLACEHOLDER_LOGO)
    /\ \E t \in DOMAIN tables :
          /\ IsVersionControlTable(doc0.body, tables, t)
          /\ \E c \in CellsOf(tables, t) :
                Contains(CellText(doc0.body, t, c), "2024")

\* C16: the end-to-end example yields a report with changed = true,
\* logos_inserted_headers = 1 with the inserted logo at most 20 mm wide,
\* version_control_processed set and placeholders_missing empty.
C16_EndToEnd ==
    (Returned /\ EndToEndExample) =>
        /\ report.changed
        /\ report.logos_inserted_headers = 1
        /\ \A h \in 1 .. Len(hf) :
              \A i \in 1 .. Len(hf[h].imgs) :
                  hf[h].imgs[i].by = "header" => hf[h].imgs[i].w <= 20
        /\ report.version_control_processed = 1
        /\ report.placeholders_missing = {}

\* the well-formed tokens in the text of paragraph p, the logo token and
\* the tokens the map has an entry for (in any letter case) apart
TokensLeftIn(p) ==
    {t \in DiscoverPlaceholders(ParText(p)) :
        /\ Lower(Strip(t)) # PLACEHOLDER_LOGO
        /\ \A i \in 1 .. Len(inp.repl) : Lower(inp.repl[i].k) # Lower(t)}

\* C17: every well-formed token other than the logo token (and without an
\* entry in the map) that is still in
\* the text of a body, table-cell, header, footer or text-box paragraph when
\* process_docx finishes, also of a paragraph that holds an image, is in
\* the report's placeholders_missing (in some letter case).
C17_LeftoverTokensReported ==
    Returned =>
        \A j \in 1 .. Len(body \o hf) :
            \A t \in TokensLeftIn((body \o hf)[j]) :
                \E m \in report.placeholders_missing : Lower(m) = Lower(t)

\* the table the update works on: the first of doc.tables with a keyword
\* (0 if there is none)
VersionControlTable(b, tbls) ==
    LET vc == {t \in DOMAIN tbls : IsVersionControlTable(b, tbls, t)}
    IN  IF vc = {} THEN 0 ELSE CHOOSE m \in vc : \A n \in vc : m <= n

\* C18: when the version-control table was updated, every cell of it that
\* held a date with a year of 2020-2025 holds the current date afterwards,
\* and every cell that held a date with a year of 2026 or later holds the
\* next review date, also a cell that held dates of both classes.
C18_DatesClassifiedPerDate ==
    (Returned /\ report.version_control_processed = 1) =>
        \A t \in {VersionControlTable(doc0.body, tables)} \cap DOMAIN tables :
          \A c \in CellsOf(tables, t) :
            LET text  == CellText(doc0.body, t, c)
                dates == GetVersionControlDates(inp.today)
            IN  (\E k \in 1 .. 3 : DatePatternSearch(k, text)) =>
                  /\ HasCurrentYear(text) =>
                        Contains(CellText(body, t, c), dates.current_date)
                  /\ HasNextReviewYear(text) =>
                        Contains(CellText(body, t, c), dates.next_review_date)

\* C19: no token match joins the text of a paragraph with the text of a
\* paragraph nested in it or of another container: a paragraph outside the
\* tables whose own text holds no complete token keeps its text until
\* process_docx finishes.
C19_NoMatchAcrossContainers ==
    Returned =>
        \A j \in 1 .. Len(doc0.body) :
            \A k \in 1 .. Len(body) :
                (/\ body[k].id = doc0.body[j].id
                 /\ doc0.body[j].tbl = 0
                 /\ DiscoverPlaceholders(ParText(doc0.body[j])) = {})
                    => ParText(body[k]) = ParText(doc0.body[j])

\* C20: after a run that is not dry, no body, header, footer or text-box
\* paragraph (one that holds an image included) still holds a token that
\* equals a key of the map up to letter case without being that key (the
\* logo token apart).
C20_CaseInsensitiveEverywhere ==
    (Returned /\ ~inp.dry) =>
        \A j \in 1 .. Len(body \o hf) :
            \A t \in DiscoverPlaceholders(ParText((body \o hf)[j])) :
                \A i \in 1 .. Len(inp.repl) :
                    (Lower(t) = Lower(inp.repl[i].k) /\ Lower(t) # PLACEHOLDER_LOGO)
                        => t = inp.repl[i].k

\* the stages of process_docx that call a function inside a try block, in
\* the order of the code, and the stage that follows the last of them
StageOrder == <<"cover", "shapes", "body", "hf", "prune", "hfshapes", "vc",
                "fallback", "save">>

\* the counters of a report
Counters(r) ==
    <<r.logos_inserted_body, r.logos_inserted_headers,
      r.version_control_processed, r.xml_logo_hits, r.xml_paras_changed,
      r.xml_paras_pruned>>

\* the logos the body pass has put into the paragraphs of story
BodyPassLogos(story) ==
    Cardinality({j \in 1 .. Len(story) :
                    \E i \in 1 .. Len(story[j].imgs) :
                        story[j].imgs[i].by = "body"})

\* the stage a value of pc belongs to: the loop of the pruning pass is
\* part of stage 5
StageOf(s) == IF s = "pruning" THEN "prune" ELSE s

\* a step of a stage whose function raises in this run, because the run
\* makes its call fail or because of a value of the map that re.sub or the
\* XML tree refuses; the fallback logo fails when it is due and the logo
\* file cannot be read
FailingStep ==
    /\ pc' # pc
    /\ \/ /\ Raises(pc)
          /\ pc \in {"cover", "shapes", "body", "hf", "prune", "hfshapes", "vc"}
       \/ pc = "body" /\ BodyCallRaises(body, inp)
       \/ pc = "pruning" /\ pr.idx < Len(pr.paragraphs)
                         /\ PruneRescue(body, pr, inp.repl).raised
       \/ pc = "hfshapes" /\ HfShapesRaises(hf, inp.repl)
       \/ /\ pc = "fallback"
          /\ inp.logo = "missing"
          /\ ~inp.dry
          /\ report.xml_logo_hits > 0
          /\ report.logos_inserted_body + report.logos_inserted_headers = 0

\* C15 as claimed: the step of a stage that raises leads to the next stage
\* and leaves every counter of the report as it was.
C15_StageIsolationAsClaimed ==
    [][FailingStep =>
          /\ \E k \in 1 .. Len(StageOrder) - 1 :
                StageOf(pc) = StageOrder[k] /\ pc' = StageOrder[k + 1]
          /\ Counters(report') = Counters(report)]_vars

\* C15: the step of a stage that raises leads to the next stage, so the
\* exception neither reaches the caller nor keeps a later stage from
\* running; it leaves every counter of the report as it was, except that a
\* failing body pass has counted the logos it inserted into the paragraphs
\* before the one that failed.
C15_StageIsolation ==
    [][FailingStep =>
          /\ \E k \in 1 .. Len(StageOrder) - 1 :
                StageOf(pc) = StageOrder[k] /\ pc' = StageOrder[k + 1]
          /\ Counters(report') =
                Counters([report EXCEPT
                            !.logos_inserted_body =
                                IF pc = "body" THEN BodyPassLogos(body') ELSE @])]_vars

\* C15 witness: the body pass failed on its second paragraph after it had
\* inserted a logo, and the header pass after it inserted its own logo.
C15_Witness ==
    /\ pc = "done"
    /\ inp.fault = [stage |-> "body", at |-> 1]
    /\ Len(doc0.body) = 2
    /\ doc0.body[2].frags = <<"<a>">>
    /\ doc0.body[2].imgs = <<>>
    /\ report.logos_inserted_body = 1
    /\ report.logos_inserted_headers = 1
    /\ saved

----------------------------------------------------------------------------
(* The scan loop of _cross_run_replace_xml, one iteration at a time        *)

\* the cursor left where the match began
CursorAtMatchStart(hit, val) == <<hit[1], hit[2]>>

\* lines 946-947: the cursor after a match, past the inserted value
CursorAfterMatch(hit, val) == <<hit[1], hit[2] + Len(val)>>

\* lines 916-954: one iteration of the while loop at cursor (pn, po): the
\* texts and the cursor it leaves
ScanIteration(txs, tokens, repl, pn, po) ==
    LET cur == Frag(txs, pn)
        nxt == Advance(txs, pn, po)
    IN  IF po < Len(cur) /\ Ch(cur, po) # "<"
        THEN [texts |-> txs, pn |-> nxt[1], po |-> nxt[2]]
        ELSE LET f == FirstHit(txs, tokens, 1, pn, po)
                 val == IF Lower(f.tok) = PLACEHOLDER_LOGO THEN ""
                        ELSE Get2(repl, f.tok, "")
             IN  IF f.hit = <<>>
                 THEN [texts |-> txs, pn |-> nxt[1], po |-> nxt[2]]
                 ELSE [texts |-> Splice(txs, f.hit, val),
                       pn |-> CursorAfterMatch(f.hit, val)[1],
                       po |-> CursorAfterMatch(f.hit, val)[2]]

\* the containers and maps of the resolver harness, before the pass
InitScan ==
    /\ InitResolver
    /\ scan = NoScan

\* lines 901-914: the possessive rule, then the cursor at the start; when
\* the rule's re.sub raises, the function is left before the loop
ScanBegin ==
    /\ pc = "idle"
    /\ scan.at = "idle"
    /\ texts # <<>>
    /\ \E a \in {AfterPossessive(texts, rmap)} :
          /\ texts' = a.texts
          /\ scan' = [at |-> IF a.raised THEN "raised" ELSE "loop",
                      pn |-> 0, po |-> 0]
    /\ UNCHANGED <<orig, rmap, pass, res1, res2, ret, docVars>>

\* lines 915-954: one iteration of the loop
ScanStep ==
    /\ scan.at = "loop"
    /\ scan.pn < Len(texts)
    /\ ~NoLtFrom(texts, scan.pn)
    /\ \E r \in {ScanIteration(texts, Tokens(rmap), rmap, scan.pn, scan.po)} :
          /\ texts' = r.texts
          /\ scan' = [scan EXCEPT !.pn = r.pn, !.po = r.po]
    /\ UNCHANGED <<orig, rmap, pass, res1, res2, ret, docVars>>

\* lines 915 and 917-918: the loop ends
ScanEnd ==
    /\ scan.at = "loop"
    /\ scan.pn >= Len(texts) \/ NoLtFrom(texts, scan.pn)
    /\ scan' = [scan EXCEPT !.at = "end"]
    /\ UNCHANGED <<texts, orig, rmap, pass, res1, res2, ret, docVars>>

NextScan == ScanBegin \/ ScanStep \/ ScanEnd

SpecScan == InitScan /\ [][NextScan]_vars

----------------------------------------------------------------------------
(* Claims about the scan loop                                              *)

\* number of characters of the virtual concatenation before cursor (pn, po)
VirtualPos(txs, pn, po) == Len(Join(SubSeq(txs, 1, pn))) + po

\* cursor (pn2, po2) is further on than (pn1, po1)
CursorAdvanced(pn1, po1, pn2, po2) == pn2 > pn1 \/ (pn2 = pn1 /\ po2 > po1)

\* what the loop still has before it: the characters from the cursor to
\* the end of the container, and the fragments from the cursor's on
Remaining(txs, pn, po) ==
    (Len(Join(txs)) - VirtualPos(txs, pn, po)) + (Len(txs) - pn)

\* C21: the scan ends for every container and map: every iteration makes
\* what remains before the cursor smaller, and what remains is never
\* negative.  An iteration never moves the cursor backwards in the virtual
\* concatenation, and either advances the cursor or shortens the text; when
\* the loop has ended, a container in which no key of the map occurs has
\* the text the possessive rule left.
C21_ScanTerminates ==
    /\ [][ScanStep =>
            /\ VirtualPos(texts', scan'.pn, scan'.po)
                  >= VirtualPos(texts, scan.pn, scan.po)
            /\ \/ CursorAdvanced(scan.pn, scan.po, scan'.pn, scan'.po)
               \/ Len(Join(texts')) < Len(Join(texts))
            /\ Remaining(texts', scan'.pn, scan'.po)
                  < Remaining(texts, scan.pn, scan.po)]_vars
    /\ [](scan.at = "loop" => Remaining(texts, scan.pn, scan.po) >= 0)
    /\ [](scan.at = "end" =>
            (~KnownTokenIn(Join(AfterPossessive(orig, rmap).texts), rmap)
                => texts = AfterPossessive(orig, rmap).texts))

\* C21 witness: the loop has ended on a container with an empty fragment, an
\* unclosed span and a token that was replaced by an empty value.
C21_Witness ==
    /\ scan.at = "end"
    /\ \E i \in 1 .. Len(orig) : orig[i] = ""
    /\ Contains(Join(orig), "<ab><")
    /\ Join(texts) = "<"

----------------------------------------------------------------------------
(* Claims about process_docx, continued                                    *)

\* the paragraph at position j of the loaded body is one the body pass
\* resolves run by run: a paragraph of doc.paragraphs without an image
\* that is not the protected first paragraph of a policy manual
ResolvedByBodyPass(j) ==
    /\ doc0.body[j].tbl = 0
    /\ doc0.body[j].box = 0
    /\ doc0.body[j].imgs = <<>>
    /\ ~(IsPolicyManual(inp.name) /\ j = 1)

\* C22: the possessive rule runs before the generic substitution of the
\* token it applies to: right after the body pass, a run that held the
\* company-name token followed by 's has the text that the possessive rule
\* first and the generic substitutions second give.
C22_PossessiveBeforeGeneric ==
    (pc = "hf" /\ inp.fault = NoFault) =>
        \A j \in 1 .. Len(doc0.body) :
            \A k \in 1 .. Len(body) :
                (/\ ResolvedByBodyPass(j)
                 /\ body[k].id = doc0.body[j].id
                 /\ body[k].imgs = <<>>
                 /\ Len(doc0.body[j].frags) = 1
                 /\ HandleSmartPossessive(doc0.body[j].frags[1], inp.repl).changed)
                    => body[k].frags =
                          <<GenericSubs(HandleSmartPossessive(doc0.body[j].frags[1],
                                                              inp.repl).text,
                                        FALSE, inp.repl, 1).text>>

\* the text of the paragraph the pruning pass is at, as its rescue (line
\* 1061) leaves it
TextAfterRescue(b, id, repl) ==
    Join(CrossRunReplace(NodesOf(b, Owners(b, PosOf(b, id))), repl).texts)

\* token t has a value in the map that is neither empty nor blank, the key
\* taken in any letter case
HasNonBlankValue(repl, t) ==
    \E i \in 1 .. Len(repl) :
        Lower(repl[i].k) = Lower(t) /\ Strip(repl[i].v) # ""

\* C23: at the moment the pruning pass removes a paragraph, the paragraph
\* holds at least one well-formed token, and no token it holds has a value
\* in the map that is neither empty nor blank.
C23_PrunedOnlyBlankTokens ==
    [][ (pc = "pruning" /\ Len(body') < Len(body)) =>
            LET toks == DiscoverPlaceholders(
                            TextAfterRescue(body, pr.paragraphs[pr.idx + 1],
                                            inp.repl))
            IN  /\ toks # {}
                /\ \A t \in toks : ~HasNonBlankValue(inp.repl, t) ]_vars

\* the tokens the paragraph with this id of the loaded body holds once the
\* rescue has run on it
TokensAfterRescue(id) ==
    DiscoverPlaceholders(TextAfterRescue(doc0.body, id, inp.repl))

\* a run of the pruning pass on table cells that the body pass left alone:
\* one paragraph is removed holding a token without an entry, a token whose
\* value is empty and a token whose value is blank, and another is kept
\* holding a token of the map whose value is plain text
C23_Witness ==
    /\ pc = "done"
    /\ report.xml_paras_pruned = 1
    /\ \E j \in 1 .. Len(doc0.body) :
          LET toks == TokensAfterRescue(doc0.body[j].id)
              Value(t) == Get(inp.repl, Lower(t), "")
          IN  /\ \A i \in 1 .. Len(body) : body[i].id # doc0.body[j].id
              /\ \E t \in toks : ~HasKey(inp.repl, Lower(t))
              /\ \E t \in toks : HasKey(inp.repl, Lower(t)) /\ Value(t) = ""
              /\ \E t \in toks : Value(t) # "" /\ Strip(Value(t)) = ""
    /\ \E i \in 1 .. Len(body) :
          /\ body[i].tbl # 0
          /\ \E t \in DiscoverPlaceholders(Join(body[i].frags)) :
                 HasNonBlankValue(inp.repl, t)

\* paragraph p as it would be outside every table cell
OutsideTable(p) == [p EXCEPT !.tbl = 0, !.cell = 0]

\* C24: for a paragraph inside a table cell, of a header, a footer or the
\* body, detect_header_context recommends a width strictly smaller than for
\* the same paragraph outside every table cell.
C24_TableTierNarrower ==
    \A j \in 1 .. Len(body \o hf) :
        LET p == (body \o hf)[j]
        IN  p.tbl # 0 =>
               DetectHeaderContext(p).recommended_width
                  < DetectHeaderContext(OutsideTable(p)).recommended_width

\* a footer paragraph inside a table cell, for which detect_header_context
\* recommends the body-table width, and the default width outside the cell
C24_Witness ==
    \E h \in 1 .. Len(hf) :
        /\ hf[h].part = "footer" /\ hf[h].tbl # 0
        /\ DetectHeaderContext(hf[h]).recommended_width = BODY_TABLE_WIDTH
        /\ DetectHeaderContext(OutsideTable(hf[h])).recommended_width
               = DEFAULT_WIDTH

\* the place of a value of pc in the order of the code: the nine stages
\* (the loop of the pruning pass belongs to stage 5), then the return
StageNumber(s) ==
    CASE s = "load" -> 0
      [] s = "cover" -> 1
      [] s = "shapes" -> 2
      [] s = "body" -> 3
      [] s = "hf" -> 4
      [] s \in {"prune", "pruning"} -> 5
      [] s = "hfshapes" -> 6
      [] s = "vc" -> 7
      [] s = "fallback" -> 8
      [] s = "save" -> 9
      [] s = "done" -> 10

\* C25: the stages run in the order of the code, each at most once and,
\* once the document has loaded, none left out: a step stays in its stage
\* or goes on to the next one, and no stage is entered again; a document
\* that does not load ends the run before the first stage.  The counters
\* the fallback check reads are final when it runs (after it only the
\* fallback itself adds a logo), the file is written by the save stage
\* only, and nothing changes once process_docx has returned.
C25_StageOrder ==
    [][ /\ \/ StageNumber(pc') \in {StageNumber(pc), StageNumber(pc) + 1}
           \/ pc = "load" /\ Raises("load") /\ pc' = "done"
        /\ (StageNumber(pc') = StageNumber(pc) /\ pc' # pc)
              => (pc = "prune" /\ pc' = "pruning")
        /\ StageNumber(pc) >= 8 =>
              /\ report'.logos_inserted_headers = report.logos_inserted_headers
              /\ report'.xml_logo_hits = report.xml_logo_hits
              /\ report'.logos_inserted_body # report.logos_inserted_body
                    => pc = "fallback"
        /\ saved' # saved => (pc = "save" /\ pc' = "done" /\ ~inp.dry)
        /\ StageNumber(pc) >= 9 => (body' = body /\ hf' = hf /\ report' = report)
      ]_vars

\* C25 witness: process_docx has returned after the fallback stage placed
\* the logo and the save stage wrote the file.
C25_Witness ==
    /\ pc = "done"
    /\ saved
    /\ \E j \in 1 .. Len(body) :
          \E i \in 1 .. Len(body[j].imgs) : body[j].imgs[i].by = "fallback"

\* the English ordinal suffix of a day of the month
OrdinalSuffix(day) ==
    IF day \in {1, 21, 31} THEN "st"
    ELSE IF day \in {2, 22} THEN "nd"
    ELSE IF day \in {3, 23} THEN "rd"
    ELSE "th"

\* C26: on every date, 29 February included, the ordinal form of a date has
\* the correct suffix for every day 1..31, and a run that is not dry
\* rewrites the current-class dates of the version-control table with
\* today's date in ordinal form.
C26_VersionDatesEveryDay ==
    (Returned /\ ~inp.dry) =>
        /\ \A day \in 1 .. 31 :
              GetOrdinalDate([inp.today EXCEPT !.day = day]) =
                  ToString(day) \o OrdinalSuffix(day) \o " of "
                      \o MonthNames[inp.today.month] \o " "
                      \o ToString(inp.today.year)
        /\ \A t \in {VersionControlTable(doc0.body, tables)} \cap DOMAIN tables :
                 \A c \in CellsOf(tables, t) :
                     (/\ \E k \in 1 .. 3 :
                            DatePatternSearch(k, CellText(doc0.body, t, c))
                      /\ HasCurrentYear(CellText(doc0.body, t, c))
                      /\ ~HasNextReviewYear(CellText(doc0.body, t, c)))
                        => Contains(CellText(body, t, c),
                                    GetOrdinalDate(inp.today))

\* C27: in every report process_docx returns, whichever stage failed, a
\* counter that is not zero comes with changed = true.
C27_ReportConsistent ==
    pc = "done" =>
        (~report.changed => Counters(report) = <<0, 0, 0, 0, 0, 0>>)

\* C27 witness: process_docx has returned from a run in which the pruning
\* pass failed and the header pass counted a logo.
C27_Witness ==
    /\ pc = "done"
    /\ inp.fault.stage = "prune"
    /\ report.logos_inserted_headers = 1
    /\ report.changed

----------------------------------------------------------------------------
(* Frame condition of the cross-fragment resolver                          *)

\* offset, in the concatenation of txs, of the first character of the k-th
\* w:t node (k from 1)
FragStart(txs, k) == Len(Join(SubSeq(txs, 1, k - 1)))

\* lines 901-904: the k-th node holds a character of an occurrence of the
\* possessive pattern in the concatenation
InPossessiveSpan(txs, k) ==
    \E i \in 0 .. Len(Join(txs)) - 1 :
        \E e \in {PossessiveEnd(Join(txs), i)} :
            /\ e >= 0
            /\ FragStart(txs, k) < e
            /\ FragStart(txs, k) + Len(txs[k]) > i

\* lines 933-944: what one iteration of the loop may do to the nodes: nothing,
\* or, for the match (sn, so, en, eo) it found, keep the text left of the
\* match in node sn and right of it in node en, blank the nodes in between
\* and leave every other node alone
SpliceFrame(txs, txs2, hit) ==
    /\ hit # <<>>
    /\ Len(txs2) = Len(txs)
    /\ \A k \in 1 .. Len(txs) :
          /\ (k - 1 < hit[1] \/ k - 1 > hit[3]) => txs2[k] = txs[k]
          /\ (k - 1 > hit[1] /\ k - 1 < hit[3]) => txs2[k] = ""
    /\ StartsWith(txs2[hit[1] + 1], Slice(txs[hit[1] + 1], 0, hit[2]))
    /\ EndsWith(txs2[hit[3] + 1], From(txs[hit[3] + 1], hit[4]))

\* an iteration of the scan loop rewrites only the boundary nodes of the
\* match it found and blanks only the nodes inside it
LoopFrame ==
    [][ScanStep =>
         \/ texts' = texts
         \/ SpliceFrame(texts, texts',
                FirstHit(texts, Tokens(rmap), 1, scan.pn, scan.po).hit)]_vars

\* C28: frame condition of the cross-fragment resolver: a node wholly outside
\* every matched span keeps its text; the scan loop rewrites only the
\* boundary nodes of a match and blanks only the nodes inside it, and the
\* possessive rule that runs before the loop leaves the nodes that hold no
\* character of a possessive occurrence as they were
C28_FrameCondition ==
    /\ LoopFrame
    /\ [][ScanBegin =>
            \A k \in 1 .. Len(texts) :
                ~InPossessiveSpan(texts, k) => texts'[k] = texts[k]]_vars

----------------------------------------------------------------------------
(* Paragraphs that hold an image                                           *)

\* the ids of the paragraphs of b that hold a drawing or picture
ImageParagraphs(b) == {b[i].id : i \in {j \in 1 .. Len(b) : b[j].imgs # <<>>}}

\* C29: no stage of process_docx removes a paragraph that holds an image:
\* on every step, each body paragraph with a drawing or picture is still a
\* paragraph of the body afterwards, the version-control layout step
\* included
C29_ImageParagraphsKept ==
    [][\A id \in ImageParagraphs(body) :
           \E j \in 1 .. Len(body') : body'[j].id = id]_vars

----------------------------------------------------------------------------
(* The cover-logo paragraph                                                *)

\* lines 1371-1374: the cover stage is over and has inserted the cover logo
CoverLogoInserted ==
    /\ pc \notin {"idle", "load", "cover"}
    /\ IsPolicyManual(inp.name)
    /\ inp.logo = "ok"
    /\ ~inp.dry
    /\ ~Raises("load")
    /\ ~Raises("cover")

\* C30: once the cover stage has inserted the cover logo, the first
\* paragraph of the body is left-aligned and holds exactly one image, the
\* cover logo at the caller's width, in every later stage until the document
\* is saved
C30_CoverLogoStays ==
    CoverLogoInserted =>
        /\ body # <<>>
        /\ body[1].align = ALIGN_LEFT
        /\ body[1].imgs = <<[w |-> inp.width_mm, by |-> "cover"]>>

====
